---- MODULE Spec2Model ----
(***************************************************************************)
(* A model of nestjs-paginate's query-construction core: one resolution    *)
(* of paginate(query, repo, config) as implemented by class NestJsPaginate *)
(* in src/src/paginate.ts.                                                 *)
(*                                                                         *)
(* Optional values (undefined / null in the source) are sequences of       *)
(* length at most one: <<>> is "unset", <<v>> is "set to v".  Strings that *)
(* the code inspects or transforms are sequences: a sort direction or a    *)
(* number is a sequence of characters, a column reference is a sequence of *)
(* identifiers and punctuation ('toys.name' is <<"toys", ".", "name">>).   *)
(* Identifiers hold no punctuation, so two such sequences are equal        *)
(* exactly when the strings are.                                           *)
(***************************************************************************)
EXTENDS Integers, Sequences, FiniteSets, TLC

(***************************************************************************)
(* Bounds of the model.                                                    *)
(***************************************************************************)
MaxSmall == 2    \* small limits / default limits / max limits are 1..MaxSmall
MaxPage == 3     \* requested pages are 0..MaxPage (or unset)
MaxRows == 3     \* the store holds 0..MaxRows matching rows (or 25)
MaxSortBy == 2   \* query.sortBy has at most MaxSortBy entries

(***************************************************************************)
(* enum PaginationLimit                                                    *)
(***************************************************************************)
NO_PAGINATION == -1
COUNTER_ONLY == 0
DEFAULT_LIMIT == 20
DEFAULT_MAX_LIMIT == 100

(***************************************************************************)
(* JavaScript operators on optional numbers.                               *)
(***************************************************************************)
None == <<>>
Some(v) == <<v>>

\* a ?? b
Coalesce(o, d) == IF o = None THEN d ELSE o[1]

\* a || b for a number a: undefined and 0 are both falsy
OrDefault(o, d) == IF o = None THEN d ELSE IF o[1] = 0 THEN d ELSE o[1]

\* o === v for an optional number o and a number v
StrictEq(o, v) == o # None /\ o[1] = v

Min(a, b) == IF a <= b THEN a ELSE b

\* variant: the quotient is rounded down
CeilDiv_Floor(a, b) == a \div b

\* Math.ceil(a / b) for integers a and b # 0
CeilDiv(a, b) == 0 - ((0 - a) \div b)

\* variant: only an undefined value takes the default
positiveNumberOrDefault_NoMin(value, defaultValue, minValue) ==
    IF value = None THEN defaultValue ELSE value[1]

\* positiveNumberOrDefault(value, defaultValue, minValue)
positiveNumberOrDefault(value, defaultValue, minValue) ==
    IF value = None THEN defaultValue
    ELSE IF value[1] < minValue THEN defaultValue ELSE value[1]

(***************************************************************************)
(* Pagination calculator: the getters isPaginated and paginationLimit.     *)
(***************************************************************************)
\* variant: the no-pagination sentinel switches pagination off whatever maxLimit is
isPaginated_IgnoresMaxLimit(q, c) ==
    IF StrictEq(q.limit, COUNTER_ONLY) THEN FALSE
    ELSE IF StrictEq(q.limit, NO_PAGINATION) THEN FALSE
    ELSE TRUE

isPaginated(q, c) ==
    LET maxLimit == OrDefault(c.maxLimit, DEFAULT_MAX_LIMIT) IN
    IF StrictEq(q.limit, COUNTER_ONLY) THEN FALSE
    ELSE IF StrictEq(q.limit, NO_PAGINATION) /\ maxLimit = NO_PAGINATION THEN FALSE
    ELSE TRUE

\* variant: the requested limit is not capped by maxLimit
paginationLimit_NoCap(q, c) ==
    IF StrictEq(q.limit, COUNTER_ONLY) THEN COUNTER_ONLY
    ELSE LET defaultLimit == OrDefault(c.defaultLimit, DEFAULT_LIMIT)
             maxLimit == OrDefault(c.maxLimit, DEFAULT_MAX_LIMIT)
         IN IF ~isPaginated(q, c) THEN defaultLimit
            ELSE IF maxLimit = NO_PAGINATION THEN Coalesce(q.limit, defaultLimit)
            ELSE IF StrictEq(q.limit, NO_PAGINATION) THEN defaultLimit
            ELSE Coalesce(q.limit, defaultLimit)

paginationLimit(q, c) ==
    IF StrictEq(q.limit, COUNTER_ONLY) THEN COUNTER_ONLY
    ELSE LET defaultLimit == OrDefault(c.defaultLimit, DEFAULT_LIMIT)
             maxLimit == OrDefault(c.maxLimit, DEFAULT_MAX_LIMIT)
         IN IF ~isPaginated(q, c) THEN defaultLimit
            ELSE IF maxLimit = NO_PAGINATION THEN Coalesce(q.limit, defaultLimit)
            ELSE IF StrictEq(q.limit, NO_PAGINATION) THEN defaultLimit
            ELSE Min(Coalesce(q.limit, defaultLimit), maxLimit)

(***************************************************************************)
(* Strings that the code transforms, as sequences of characters.           *)
(***************************************************************************)
ASC == <<"A", "S", "C">>
DESC == <<"D", "E", "S", "C">>

\* String.prototype.toUpperCase, one character at a time
UpperChar(ch) ==
    CASE ch = "a" -> "A"
      [] ch = "s" -> "S"
      [] ch = "c" -> "C"
      [] ch = "d" -> "D"
      [] ch = "e" -> "E"
      [] ch = "u" -> "U"
      [] ch = "p" -> "P"
      [] OTHER -> ch

toUpperCase(str) == [i \in DOMAIN str |-> UpperChar(str[i])]

\* String.prototype.split(sep): the pieces between the occurrences of sep
RECURSIVE Split(_, _)
Split(str, sep) ==
    IF ~(\E i \in DOMAIN str : str[i] = sep) THEN <<str>>
    ELSE LET i == CHOOSE k \in DOMAIN str :
                     str[k] = sep /\ \A j \in 1..(k - 1) : str[j] # sep
         IN <<SubSeq(str, 1, i - 1)>> \o Split(SubSeq(str, i + 1, Len(str)), sep)

\* Array.prototype.join(sep)
RECURSIVE Join(_, _)
Join(seq, sep) ==
    IF seq = <<>> THEN <<>>
    ELSE IF Len(seq) = 1 THEN seq[1]
    ELSE seq[1] \o <<sep>> \o Join(Tail(seq), sep)

\* Array.prototype.includes
Includes(seq, v) == \E i \in DOMAIN seq : seq[i] = v

\* Array.prototype.filter with a predicate on the elements
RECURSIVE FilterSeq(_, _)
FilterSeq(seq, keep) ==
    IF seq = <<>> THEN <<>>
    ELSE LET rest == FilterSeq(Tail(seq), keep) IN
         IF Head(seq) \in keep THEN <<Head(seq)>> \o rest ELSE rest

\* the set of elements of a sequence
Range(seq) == {seq[i] : i \in DOMAIN seq}

\* isEntityKey(entityColumns, column)
isEntityKey(entityColumns, column) == \E i \in DOMAIN entityColumns : entityColumns[i] = column

(***************************************************************************)
(* Sort engine: getSortableColumns.  An order is <<column, direction>>.    *)
(***************************************************************************)
\* sortableColumns[0] of an empty list
UndefinedColumn == <<"undefined">>

\* the forEach callback of getSortableColumns: is this order pushed?
isPushed(c, order) ==
    LET isValidColumn == isEntityKey(c.sortableColumns, order[1])
        isValidSortBy == Includes(<<ASC, DESC>>, toUpperCase(order[2]))
    IN ~(~isValidColumn /\ isValidSortBy)

RECURSIVE pushedOrders(_, _)
pushedOrders(c, orders) ==
    IF orders = <<>> THEN <<>>
    ELSE IF isPushed(c, Head(orders))
         THEN <<Head(orders)>> \o pushedOrders(c, Tail(orders))
         ELSE pushedOrders(c, Tail(orders))

getSortableColumns(q, c) ==
    LET sortBy == IF q.sortBy = None THEN <<>> ELSE pushedOrders(c, q.sortBy[1])
        firstSortable == IF c.sortableColumns = <<>> THEN UndefinedColumn
                         ELSE c.sortableColumns[1]
        defaultSortBy == IF c.defaultSortBy = None THEN <<<<firstSortable, ASC>>>>
                         ELSE c.defaultSortBy[1]
    IN IF Len(sortBy) = 0 THEN <<defaultSortBy[1]>> ELSE sortBy

(***************************************************************************)
(* Search engine: getSearchableColumns.                                    *)
(***************************************************************************)
\* variant: the requested columns are taken as they come
getSearchableColumns_Unvalidated(q, c) ==
    IF c.searchableColumns = None THEN <<>>
    ELSE IF Len(c.searchableColumns[1]) = 0 THEN <<>>
    ELSE IF q.searchBy = None \/ c.ignoreSearchByInQueryParam THEN c.searchableColumns[1]
    ELSE q.searchBy[1]

getSearchableColumns(q, c) ==
    IF c.searchableColumns = None THEN <<>>
    ELSE IF Len(c.searchableColumns[1]) = 0 THEN <<>>
    ELSE IF q.searchBy = None \/ c.ignoreSearchByInQueryParam THEN c.searchableColumns[1]
    ELSE FilterSeq(q.searchBy[1], Range(c.searchableColumns[1]))

(***************************************************************************)
(* Number formatting: the template literal `${n}` of an integer.           *)
(***************************************************************************)
Digit(d) ==
    CASE d = 0 -> "0" [] d = 1 -> "1" [] d = 2 -> "2" [] d = 3 -> "3" [] d = 4 -> "4"
      [] d = 5 -> "5" [] d = 6 -> "6" [] d = 7 -> "7" [] d = 8 -> "8" [] d = 9 -> "9"

RECURSIVE NatToStr(_)
NatToStr(n) == IF n < 10 THEN <<Digit(n)>> ELSE NatToStr(n \div 10) \o <<Digit(n % 10)>>

NumToStr(n) == IF n < 0 THEN <<"-">> \o NatToStr(0 - n) ELSE NatToStr(n)

(***************************************************************************)
(* The execution collaborator (SelectQueryBuilder): a fresh builder, and   *)
(* what getMany returns for a store of n matching rows (rows are 1..n) and *)
(* the row window set on the builder.  A negative count is no LIMIT, a     *)
(* negative start is no OFFSET.                                            *)
(***************************************************************************)
NewQueryBuilder ==
    [select |-> None, joins |-> <<>>, wheres |-> <<>>, parameters |-> {}, orderBys |-> <<>>,
     limit |-> None, offset |-> None, take |-> None, skip |-> None]

rowCount(b) == IF b.limit # None THEN b.limit ELSE b.take
rowStart(b) == IF b.offset # None THEN b.offset ELSE b.skip

getManyRows(n, b) ==
    LET start == IF rowStart(b) = None THEN 0
                 ELSE IF rowStart(b)[1] < 0 THEN 0 ELSE rowStart(b)[1]
        stop == IF rowCount(b) = None THEN n
                ELSE IF rowCount(b)[1] < 0 THEN n ELSE Min(n, start + rowCount(b)[1])
    IN [i \in 1..(IF stop > start THEN stop - start ELSE 0) |-> start + i]

(***************************************************************************)
(* Entity metadata of the root entity.                                     *)
(***************************************************************************)
primaryColumns == <<<<"id">>>>

\* the alias of the builder made by repo.createQueryBuilder('__root')
RootAlias == <<"__root">>

\* the relations and embedded entities of the root entity, by property path
RelationPaths == {<<"toys">>, <<"home">>, <<"den">>}
EmbeddedPaths == {<<"size">>}

\* the entity a relation joins to through a join column of the root entity
\* (a one-to-many relation has no such column)
referencedEntity(propertyPath) ==
    IF propertyPath \in {<<"home">>, <<"den">>} THEN Some("CatHomeEntity") ELSE None

\* the virtual columns of an entity: property name and the name of its query
virtualColumnsOf(entity) ==
    CASE entity = "CatEntity" -> {[propertyName |-> <<"lives">>, query |-> Some("livesQuery")]}
      [] entity = "CatHomeEntity" ->
            {[propertyName |-> <<"countCat">>, query |-> Some("countCatQuery")]}
      [] OTHER -> {}

\* the SQL text a virtual column's query function returns for an alias
applyQuery(query, alias) == <<"SELECT", " ", query, " ", "FROM", " ">> \o alias

(***************************************************************************)
(* Column path resolver.                                                   *)
(***************************************************************************)
startsWith(str, token) == str # <<>> /\ str[1] = token

\* String.prototype.replace(token, ''): the first occurrence is removed
removeFirst(str, token) ==
    IF ~Includes(str, token) THEN str
    ELSE LET i == CHOOSE k \in DOMAIN str :
                     str[k] = token /\ \A j \in 1..(k - 1) : str[j] # token
         IN SubSeq(str, 1, i - 1) \o SubSeq(str, i + 1, Len(str))

\* variant: every remainder of two segments or more is nested
getPropertiesByColumnName_AlwaysNested(column) ==
    LET propertyPath == Split(column, ".") IN
    IF Len(propertyPath) <= 1
    THEN [propertyPath |-> None, propertyName |-> propertyPath[1], isNested |-> FALSE,
          column |-> propertyPath[1]]
    ELSE LET propertyNamePath == Tail(propertyPath)
             joined == Join(propertyNamePath, ".")
             propertyName == removeFirst(removeFirst(joined, "("), ")")
         IN [propertyPath |-> Some(propertyPath[1]), propertyName |-> propertyName,
             isNested |-> Len(propertyNamePath) > 1,
             column |-> propertyPath[1] \o <<".">> \o propertyName]

getPropertiesByColumnName(column) ==
    LET propertyPath == Split(column, ".") IN
    IF Len(propertyPath) <= 1
    THEN [propertyPath |-> None, propertyName |-> propertyPath[1], isNested |-> FALSE,
          column |-> propertyPath[1]]
    ELSE LET propertyNamePath == Tail(propertyPath)
             joined == Join(propertyNamePath, ".")
             isNested == ~startsWith(joined, "(") /\ Len(propertyNamePath) > 1
             propertyName == removeFirst(removeFirst(joined, "("), ")")
         IN [propertyPath |-> Some(propertyPath[1]), propertyName |-> propertyName,
             isNested |-> isNested, column |-> propertyPath[1] \o <<".">> \o propertyName]

\* a string used as a condition: undefined and '' are falsy
truthyPath(propertyPath) == propertyPath # None /\ propertyPath[1] # <<>>

checkIsRelation(propertyPath) == truthyPath(propertyPath) /\ propertyPath[1] \in RelationPaths

checkIsEmbedded(propertyPath) == truthyPath(propertyPath) /\ propertyPath[1] \in EmbeddedPaths

extractVirtualProperty(columnProperties) ==
    LET entity == IF truthyPath(columnProperties.propertyPath)
                  THEN referencedEntity(columnProperties.propertyPath[1])
                  ELSE Some("CatEntity")
        found == IF entity = None THEN {}
                 ELSE {col \in virtualColumnsOf(entity[1]) :
                          col.propertyName = columnProperties.propertyName}
    IN IF found = {} THEN [isVirtualProperty |-> FALSE, query |-> None]
       ELSE LET col == CHOOSE col \in found : TRUE
            IN [isVirtualProperty |-> TRUE, query |-> col.query]

\* variant: the segments are joined as they are
nestedRelationsOf_Bare(segments) ==
    Join([i \in 1..(Len(segments) - 1) |-> segments[i]], "_")

\* propertyPath.slice(0, -1).map((v) => `${v}_rel`).join('_')
nestedRelationsOf(segments) ==
    Join([i \in 1..(Len(segments) - 1) |-> segments[i] \o <<"_", "rel">>], "_")

\* `${propertyPath}` in a template literal
pathText(propertyPath) == IF propertyPath = None THEN <<"undefined">> ELSE propertyPath[1]

fixColumnAlias(properties, alias, isRelation, isVirtualProperty, isEmbedded, query) ==
    IF isVirtualProperty
    THEN (IF query # None THEN <<"(">> \o applyQuery(query[1], alias) \o <<")">>
          ELSE alias \o <<"_">> \o properties.propertyName)
    ELSE IF isEmbedded
    THEN alias \o <<".">> \o pathText(properties.propertyPath) \o <<".">> \o properties.propertyName
    ELSE IF ~isRelation
    THEN properties.propertyName
    ELSE IF isVirtualProperty /\ query # None
    THEN <<"(">> \o applyQuery(query[1], alias \o <<"_">> \o pathText(properties.propertyPath)
                                               \o <<"_", "rel">>) \o <<")">>
    ELSE IF (isVirtualProperty /\ query = None) \/ properties.isNested
    THEN (IF Includes(properties.propertyName, ".")
          THEN LET segments == Split(properties.propertyName, ".")
               IN alias \o <<"_">> \o pathText(properties.propertyPath) \o <<"_", "rel", "_">>
                  \o nestedRelationsOf(segments) \o <<".">> \o segments[Len(segments)]
          ELSE alias \o <<"_">> \o pathText(properties.propertyPath) \o <<"_", "rel", "_">>
               \o properties.propertyName)
    ELSE alias \o <<"_">> \o pathText(properties.propertyPath) \o <<"_", "rel", ".">>
         \o properties.propertyName

\* the alias applySearch resolves: the full classification and the query
searchAlias(column) ==
    LET properties == getPropertiesByColumnName(column)
        virtual == extractVirtualProperty(properties)
    IN fixColumnAlias(properties, RootAlias, checkIsRelation(properties.propertyPath),
                      virtual.isVirtualProperty, checkIsEmbedded(properties.propertyPath),
                      virtual.query)

\* the alias applySorting resolves: the full classification, no query
sortAlias(column) ==
    LET properties == getPropertiesByColumnName(column)
        virtual == extractVirtualProperty(properties)
    IN fixColumnAlias(properties, RootAlias, checkIsRelation(properties.propertyPath),
                      virtual.isVirtualProperty, checkIsEmbedded(properties.propertyPath),
                      None)

\* the alias applyColumnsSelection resolves: only the relation flag is passed
selectAlias(column) ==
    LET properties == getPropertiesByColumnName(column)
    IN fixColumnAlias(properties, RootAlias, checkIsRelation(properties.propertyPath),
                      FALSE, FALSE, None)

\* includesAllPrimaryKeyColumns(qb, propertyPath) for an optional list
includesAllPrimaryKeyColumns(list) ==
    IF list = None THEN FALSE
    ELSE \A i \in DOMAIN primaryColumns : Includes(list[1], primaryColumns[i])

\* variant: a request that leaves out a primary key column is narrowed too
selectParamsOf_NoPrimaryKeyFallback(q, c) ==
    IF c.select # None /\ q.select # None /\ ~c.ignoreSelectInQueryParam
    THEN Some(FilterSeq(c.select[1], Range(q.select[1])))
    ELSE c.select

\* the candidate select list of applyColumnsSelection (an optional list)
selectParamsOf(q, c) ==
    LET narrowed == IF c.select # None /\ q.select # None /\ ~c.ignoreSelectInQueryParam
                    THEN Some(FilterSeq(c.select[1], Range(q.select[1])))
                    ELSE c.select
    IN IF ~includesAllPrimaryKeyColumns(q.select) THEN c.select ELSE narrowed

(***************************************************************************)
(* Initialisation of the builder: the joins of config.relations and the    *)
(* predicate of config.where.  A relations object is a sequence of entries *)
(* (relationName, isObject, schema), a predicate object a sequence of      *)
(* entries (key, kind, value, children) in the order of its keys; kind is  *)
(* "object" for a nested plain object, "primitive" or "operator" (a        *)
(* FindOperator) for a leaf.  config.where is (isArray, object, array): an *)
(* object or an array of objects.  A join is (property, alias, select).    *)
(***************************************************************************)
joinedAliases(b) == {b.joins[i].alias : i \in DOMAIN b.joins}

leftJoinAndSelect(b, property, alias) ==
    [b EXCEPT !.joins = Append(@, [property |-> property, alias |-> alias, select |-> TRUE])]

leftJoin(b, property, alias) ==
    [b EXCEPT !.joins = Append(@, [property |-> property, alias |-> alias, select |-> FALSE])]

RECURSIVE createQueryBuilderRelations(_, _, _, _)
createQueryBuilderRelations(b, prefix, relations, alias) ==
    IF relations = <<>> THEN b
    ELSE LET entry == Head(relations)
             base == Coalesce(alias, prefix)
             relationAlias == base \o <<"_">> \o entry.relationName \o <<"_", "rel">>
             joined == leftJoinAndSelect(b, base \o <<".">> \o entry.relationName, relationAlias)
             nested == IF entry.isObject
                       THEN createQueryBuilderRelations(joined, entry.relationName, entry.schema,
                                                        Some(relationAlias))
                       ELSE joined
         IN createQueryBuilderRelations(nested, prefix, Tail(relations), alias)

\* the alias of a leaf from its properties and its virtual column, if any
leafAlias(property, virtual) ==
    fixColumnAlias(property, RootAlias, checkIsRelation(property.propertyPath),
                   virtual.isVirtualProperty, checkIsEmbedded(property.propertyPath),
                   virtual.query)

propertyAlias(property) == leafAlias(property, extractVirtualProperty(property))

\* the alias a leaf of the predicate is compared through
whereAlias(joinedKey) == propertyAlias(getPropertiesByColumnName(joinedKey))

\* the comparison the builder compiles for an alias and the value of a leaf
whereClause(alias, entry) ==
    alias \o <<" ", IF entry.kind = "operator" THEN ">" ELSE "=", " ">> \o NumToStr(entry.value)

\* the paths to join for a column: every prefix of its segments but the last
tablesToJoin(column) ==
    LET allTablesInPath == LET segments == Split(column, ".")
                           IN SubSeq(segments, 1, Len(segments) - 1)
    IN [idx \in DOMAIN allTablesInPath |->
           IF idx = 1 THEN allTablesInPath[idx]
           ELSE Join(SubSeq(allTablesInPath, 1, idx - 1) \o <<allTablesInPath[idx]>>, ".")]

\* the join the flattener names for one path
joinOfTable(table) ==
    LET pathSplit == Split(table, ".")
        fullPath == IF Len(pathSplit) = 1 THEN <<>>
                    ELSE <<"_">> \o Join([i \in 1..(Len(pathSplit) - 1) |->
                                             pathSplit[i] \o <<"_", "rel">>], "_")
        tableName == pathSplit[Len(pathSplit)]
    IN [property |-> RootAlias \o fullPath \o <<".">> \o tableName,
        alias |-> RootAlias \o fullPath \o <<"_">> \o tableName \o <<"_", "rel">>]

\* variant: every path of the leaf is joined, joined before or not
RECURSIVE joinTables_Unchecked(_, _, _)
joinTables_Unchecked(b, allJoinedTables, tables) ==
    IF tables = <<>> THEN b
    ELSE LET join == joinOfTable(Head(tables))
         IN joinTables_Unchecked(leftJoin(b, join.property, join.alias), allJoinedTables,
                                 Tail(tables))

\* tablesToJoin.forEach: a left join for every path whose alias was not among
\* the joins of the builder when the leaf was reached
RECURSIVE joinTables(_, _, _)
joinTables(b, allJoinedTables, tables) ==
    IF tables = <<>> THEN b
    ELSE LET join == joinOfTable(Head(tables))
             next == IF join.alias \in allJoinedTables THEN b
                     ELSE leftJoin(b, join.property, join.alias)
         IN joinTables(next, allJoinedTables, Tail(tables))

\* the key of an entry under its parent: `${parentKey}${separator}${key}`
joinedKeyOf(parentKey, key) == IF parentKey # <<>> THEN parentKey \o <<".">> \o key ELSE key

\* a leaf: the joins of its column are added, its comparison is returned
flattenLeaf(b, property, entry) ==
    [qb |-> joinTables(b, joinedAliases(b), tablesToJoin(property.column)),
     clauses |-> <<whereClause(propertyAlias(property), entry)>>]

\* flatMap: the comparisons of an entry, then those of the entries after it
flatMapped(first, rest) == [qb |-> rest.qb, clauses |-> first.clauses \o rest.clauses]

\* flattenWhereAndTransform(queryBuilder, obj, '.', parentKey): the builder
\* with the joins added and the comparisons, one per leaf
RECURSIVE flattenWhereAndTransform(_, _, _)
RECURSIVE flattenEntries(_, _, _)
flattenEntry(b, entry, joinedKey) ==
    IF entry.kind = "object"
    THEN flattenWhereAndTransform(b, entry.children, joinedKey)
    ELSE flattenLeaf(b, getPropertiesByColumnName(joinedKey), entry)

flattenEntries(first, obj, parentKey) ==
    flatMapped(first, flattenWhereAndTransform(first.qb, obj, parentKey))

flattenWhereAndTransform(b, obj, parentKey) ==
    IF obj = <<>> THEN [qb |-> b, clauses |-> <<>>]
    ELSE flattenEntries(flattenEntry(b, Head(obj), joinedKeyOf(parentKey, Head(obj).key)),
                        Tail(obj), parentKey)

\* toTransform.map: an item flattened, then the items after it on the builder
\* it left
mapped(first, rest) ==
    [qb |-> rest.qb, groups |-> <<Join(first.clauses, " AND ")>> \o rest.groups]

RECURSIVE flattenedItems(_, _)
RECURSIVE flattenedAfter(_, _)
flattenedAfter(first, toTransform) == mapped(first, flattenedItems(first.qb, toTransform))

flattenedItems(b, toTransform) ==
    IF toTransform = <<>> THEN [qb |-> b, groups |-> <<>>]
    ELSE flattenedAfter(flattenWhereAndTransform(b, Head(toTransform), <<>>), Tail(toTransform))

\* Array.isArray(obj) ? obj : [obj]
toTransformOf(where) == IF where.isArray THEN where.array ELSE <<where.object>>

statementOf(flattened, separator) ==
    [qb |-> flattened.qb, statement |-> Join(flattened.groups, separator)]

\* variant: the groups are joined with AND
generateWhereStatement_AllAnd(b, where) ==
    statementOf(flattenedItems(b, toTransformOf(where)), " AND ")

generateWhereStatement(b, where) ==
    statementOf(flattenedItems(b, toTransformOf(where)), " OR ")

\* queryBuilder.andWhere(condition)
andWhere(b, condition) ==
    [b EXCEPT !.wheres = Append(@, [kind |-> "where", combinator |-> "AND",
                                    condition |-> condition])]

\* initialize: the joins of config.relations
withRelations(b, c) ==
    IF c.relations # None
    THEN createQueryBuilderRelations(b, RootAlias, c.relations[1], None)
    ELSE b

\* initialize: andWhere(`(${baseWhereStr})`)
withBaseWhere(generated) ==
    andWhere(generated.qb, <<"(">> \o generated.statement \o <<")">>)

\* initialize: the predicate of config.where
withWhere(b, c) ==
    IF c.where # None THEN withBaseWhere(generateWhereStatement(b, c.where[1])) ELSE b

\* initialize(repo, config) on a repository: a builder on the root alias with
\* the joins of config.relations and the predicate of config.where
initialize(c) == withWhere(withRelations(NewQueryBuilder, c), c)

(***************************************************************************)
(* State.  Every call paginate(query, repo, config) is one resolution: its *)
(* inputs, the fields of its NestJsPaginate instance, the locals of        *)
(* getPaginatedResponse and what its promise settles to.  Resolutions in   *)
(* progress at the same time interleave at their stages and awaits.        *)
(*   query, config      the PaginateQuery and PaginateConfig (read-only)   *)
(*   store              rows: number of rows matching the built query;     *)
(*                      dbType: the dialect of the connection              *)
(*   pc                 position of the resolution                         *)
(*   qb                 this._queryBuilder                                 *)
(*   sortableColumns, searchableColumns, selectableColumns                 *)
(*                      the fields of the instance                         *)
(*   items, totalItems  locals of getPaginatedResponse                     *)
(*   calls              stage and collaborator calls made so far, in order *)
(*   thrown             what the execution collaborator threw, if it did   *)
(*   outcome            what the promise settles to                        *)
(***************************************************************************)
VARIABLES resolutions

vars == <<resolutions>>

\* the resolution the properties observe
query == resolutions[1].query
config == resolutions[1].config
store == resolutions[1].store
pc == resolutions[1].pc
qb == resolutions[1].qb
sortableColumns == resolutions[1].sortableColumns
searchableColumns == resolutions[1].searchableColumns
selectableColumns == resolutions[1].selectableColumns
items == resolutions[1].items
totalItems == resolutions[1].totalItems
calls == resolutions[1].calls
thrown == resolutions[1].thrown
outcome == resolutions[1].outcome

Pending == [state |-> "pending"]

\* variant: the stage order of the older revision, closed by applySearch
stageChain_FiltersFirst ==
    <<"applyFilters", "applySorting", "applyColumnsSelection", "applyPagination", "applySearch">>

\* the chained stage calls of paginate(), in call order
stageChain ==
    <<"applyColumnsSelection", "applyFilters", "applyPagination", "applySorting", "applySearch">>

\* the position of the resolution once a stage has returned
returnedFrom(stage) ==
    CASE stage = "applyColumnsSelection" -> "selected"
      [] stage = "applyFilters" -> "filtered"
      [] stage = "applyPagination" -> "paginated"
      [] stage = "applySorting" -> "sorted"
      [] stage = "applySearch" -> "searched"

\* the position at which paginate() calls a stage: after the constructor for
\* the first stage of the chain, after the stage before it for the others
calledAt(stage) ==
    LET i == CHOOSE k \in DOMAIN stageChain : stageChain[k] = stage IN
    IF i = 1 THEN "constructed" ELSE returnedFrom(stageChain[i - 1])

\* the position at which paginate() calls getPaginatedResponse
chainDone == returnedFrom(stageChain[Len(stageChain)])

\* variant: one array shared by the instances, as a static field would be
emptyArray_Shared(instances, r) ==
    IF \E o \in DOMAIN instances : o # r
    THEN instances[CHOOSE o \in DOMAIN instances : o # r].searchableColumns
    ELSE <<>>

\* the array the field initializer `= []` gives an instance: a new one,
\* whatever the other instances hold
emptyArray(instances, r) == <<>>

\* new NestJsPaginate(repo, query, config)
Construct ==
    \E r \in DOMAIN resolutions :
       LET self == resolutions[r] IN
       /\ self.pc = "start"
       /\ resolutions' = [resolutions EXCEPT ![r] =
             [self EXCEPT
                !.qb = initialize(self.config),
                !.searchableColumns = emptyArray(resolutions, r)
                                         \o getSearchableColumns(self.query, self.config),
                !.sortableColumns = getSortableColumns(self.query, self.config),
                !.calls = Append(@, "constructor"),
                !.pc = "constructed"]]

\* variant: every candidate list is selected
withSelection_Unchecked(b, q, c) ==
    LET selectParams == selectParamsOf(q, c) IN
    IF selectParams # None
    THEN [b EXCEPT !.select =
            Some([i \in DOMAIN selectParams[1] |-> selectAlias(selectParams[1][i])])]
    ELSE b

\* the builder after the body of applyColumnsSelection
withSelection(b, q, c) ==
    LET selectParams == selectParamsOf(q, c) IN
    IF includesAllPrimaryKeyColumns(selectParams)
    THEN [b EXCEPT !.select =
            Some([i \in DOMAIN selectParams[1] |-> selectAlias(selectParams[1][i])])]
    ELSE b

applyColumnsSelection ==
    \E r \in DOMAIN resolutions :
       LET self == resolutions[r] IN
       /\ self.pc = calledAt("applyColumnsSelection")
       /\ resolutions' = [resolutions EXCEPT ![r] =
             [self EXCEPT
                !.selectableColumns = selectParamsOf(self.query, self.config),
                !.qb = withSelection(@, self.query, self.config),
                !.calls = Append(@, "applyColumnsSelection"),
                !.pc = returnedFrom("applyColumnsSelection")]]

\* the builder after the body of applyFilters
withFilters(b, q) ==
    IF q.filter # None
    THEN [b EXCEPT !.wheres = Append(@, [kind |-> "filter", filter |-> q.filter[1]])]
    ELSE b

applyFilters ==
    \E r \in DOMAIN resolutions :
       LET self == resolutions[r] IN
       /\ self.pc = calledAt("applyFilters")
       /\ resolutions' = [resolutions EXCEPT ![r] =
             [self EXCEPT
                !.qb = withFilters(@, self.query),
                !.calls = Append(@, "applyFilters"),
                !.pc = returnedFrom("applyFilters")]]

\* the builder after the body of applyPagination
withPagination(b, q, c) ==
    LET page == positiveNumberOrDefault(q.page, 1, 1)
        limit == paginationLimit(q, c)
    IN IF ~isPaginated(q, c) THEN b
       ELSE IF c.paginationType = Some("limit")
            THEN [b EXCEPT !.limit = Some(limit), !.offset = Some((page - 1) * limit)]
            ELSE [b EXCEPT !.take = Some(limit), !.skip = Some((page - 1) * limit)]

applyPagination ==
    \E r \in DOMAIN resolutions :
       LET self == resolutions[r] IN
       /\ self.pc = calledAt("applyPagination")
       /\ resolutions' = [resolutions EXCEPT ![r] =
             [self EXCEPT
                !.qb = withPagination(@, self.query, self.config),
                !.calls = Append(@, "applyPagination"),
                !.pc = returnedFrom("applyPagination")]]

\* a JavaScript string used as a condition: undefined and '' are falsy
Truthy(o) == o # None /\ o[1] # ""

isMariaDbOrMySql(dbType) == dbType = "mariadb" \/ dbType = "mysql"

\* the nullSort fragment computed at the top of applySorting (optional)
nullSortOf(c, isMMDb) ==
    IF c.nullSort = None THEN None
    ELSE IF isMMDb THEN (IF c.nullSort[1] = "last" THEN Some("IS NULL") ELSE Some("IS NOT NULL"))
    ELSE (IF c.nullSort[1] = "last" THEN Some("NULLS LAST") ELSE Some("NULLS FIRST"))

\* the grave accent that quotes an identifier for MySQL, which the lexer
\* of TLA+ does not accept inside a string
Backtick == "GRAVE"

\* the double quote that quotes an identifier
DoubleQuote == "\""

\* the addOrderBy calls of applySorting for one order, in call order
orderByCalls(order, isMMDb, nullSort) ==
    LET isVirtualProperty ==
            extractVirtualProperty(getPropertiesByColumnName(order[1])).isVirtualProperty
        resolved == sortAlias(order[1])
        alias == IF ~isVirtualProperty THEN resolved
                 ELSE IF isMMDb THEN <<Backtick>> \o resolved \o <<Backtick>>
                 ELSE <<DoubleQuote>> \o resolved \o <<DoubleQuote>>
    IN
    IF isMMDb
    THEN (IF nullSort # None
          THEN <<[sort |-> alias \o <<" ", nullSort[1]>>, order |-> None, nulls |-> None]>>
          ELSE <<>>)
         \o <<[sort |-> alias, order |-> Some(order[2]), nulls |-> None]>>
    ELSE <<[sort |-> alias, order |-> Some(order[2]), nulls |-> nullSort]>>

RECURSIVE allOrderByCalls(_, _, _)
allOrderByCalls(orders, isMMDb, nullSort) ==
    IF orders = <<>> THEN <<>>
    ELSE orderByCalls(Head(orders), isMMDb, nullSort)
         \o allOrderByCalls(Tail(orders), isMMDb, nullSort)

ServiceUnavailableException == "ServiceUnavailableException"

\* variant: the resolved sort list is tested instead of the configured one
missingSortableColumns_Resolved(c, resolved) == Len(resolved) < 1

\* the test guarding the throw of applySorting
missingSortableColumns(c, resolved) == Len(c.sortableColumns) < 1

\* the builder after the loop of applySorting
withSorting(b, c, sortable, dbType) ==
    LET isMMDb == isMariaDbOrMySql(dbType)
        nullSort == nullSortOf(c, isMMDb)
    IN [b EXCEPT !.orderBys = @ \o allOrderByCalls(sortable, isMMDb, nullSort)]

applySorting ==
    \E r \in DOMAIN resolutions :
       LET self == resolutions[r] IN
       /\ self.pc = calledAt("applySorting")
       /\ resolutions' = [resolutions EXCEPT ![r] =
             IF missingSortableColumns(self.config, self.sortableColumns)
             THEN [self EXCEPT
                     !.outcome = [state |-> "rejected", error |-> ServiceUnavailableException],
                     !.calls = Append(@, "applySorting"),
                     !.pc = "rejected"]
             ELSE [self EXCEPT
                     !.qb = withSorting(@, self.config, self.sortableColumns,
                                        self.store.dbType),
                     !.calls = Append(@, "applySorting"),
                     !.pc = returnedFrom("applySorting")]]

\* the condition and the parameter applySearch adds for one column
searchCondition(column, term, dbType) ==
    LET property == getPropertiesByColumnName(column)
        alias == searchAlias(column)
    IN [combinator |-> "OR",
        operator |-> "ilike",
        left |-> IF dbType \in {"postgres", "cockroachdb"}
                 THEN <<"CAST", "(">> \o alias \o <<" ", "AS", " ", "text", ")">>
                 ELSE alias,
        right |-> <<":">> \o property.column,
        parameter |-> <<property.column, <<"%", term, "%">>>>]

\* variant: only an absent search term is skipped
withSearch_EmptyTerm(b, q, searchable, dbType) ==
    IF q.search = None \/ Len(searchable) = 0 THEN b
    ELSE LET conditions == [i \in DOMAIN searchable |->
                               searchCondition(searchable[i], q.search[1], dbType)]
         IN [b EXCEPT !.wheres = Append(@, [kind |-> "search",
                                            combinator |-> "AND",
                                            columns |-> searchable,
                                            term |-> q.search[1],
                                            conditions |-> conditions]),
                      !.parameters = @ \cup {conditions[i].parameter : i \in DOMAIN conditions}]

\* the builder after the body of applySearch
withSearch(b, q, searchable, dbType) ==
    IF ~Truthy(q.search) \/ Len(searchable) = 0 THEN b
    ELSE LET conditions == [i \in DOMAIN searchable |->
                               searchCondition(searchable[i], q.search[1], dbType)]
         IN [b EXCEPT !.wheres = Append(@, [kind |-> "search",
                                            combinator |-> "AND",
                                            columns |-> searchable,
                                            term |-> q.search[1],
                                            conditions |-> conditions]),
                      !.parameters = @ \cup {conditions[i].parameter : i \in DOMAIN conditions}]

applySearch ==
    \E r \in DOMAIN resolutions :
       LET self == resolutions[r] IN
       /\ self.pc = calledAt("applySearch")
       /\ resolutions' = [resolutions EXCEPT ![r] =
             [self EXCEPT
                !.qb = withSearch(@, self.query, self.searchableColumns, self.store.dbType),
                !.calls = Append(@, "applySearch"),
                !.pc = returnedFrom("applySearch")]]

(***************************************************************************)
(* getPaginatedResponse up to its await: the one call into the execution   *)
(* collaborator, which resolves or throws.                                 *)
(***************************************************************************)
StoreErrors == {"QueryFailedError", "ConnectionError"}

\* variant: counter-only mode is not told apart from an unpaginated request
fetchCall_NoCounterOnly(q, c) ==
    IF isPaginated(q, c) THEN "getManyAndCount" ELSE "getMany"

\* variant: rows and count are always fetched together
fetchCall_AlwaysBoth(q, c) ==
    IF StrictEq(q.limit, COUNTER_ONLY) THEN "getCount" ELSE "getManyAndCount"

fetchCall(q, c) ==
    IF StrictEq(q.limit, COUNTER_ONLY) THEN "getCount"
    ELSE IF isPaginated(q, c) THEN "getManyAndCount"
    ELSE "getMany"

\* the locals items and totalItems once the awaited call has resolved
fetchedItems(q, c, n, b) == IF fetchCall(q, c) = "getCount" THEN <<>> ELSE getManyRows(n, b)
fetchedTotal(q, c, n) == IF fetchCall(q, c) = "getMany" THEN 0 ELSE n

fetchResolves ==
    \E r \in DOMAIN resolutions :
       LET self == resolutions[r] IN
       /\ self.pc = chainDone
       /\ resolutions' = [resolutions EXCEPT ![r] =
             [self EXCEPT
                !.calls = Append(@, fetchCall(self.query, self.config)),
                !.items = fetchedItems(self.query, self.config, self.store.rows, self.qb),
                !.totalItems = fetchedTotal(self.query, self.config, self.store.rows),
                !.pc = "fetched"]]

fetchThrows ==
    \E r \in DOMAIN resolutions, e \in StoreErrors :
       LET self == resolutions[r] IN
       /\ self.pc = chainDone
       /\ resolutions' = [resolutions EXCEPT ![r] =
             [self EXCEPT
                !.calls = Append(@, fetchCall(self.query, self.config)),
                !.thrown = Some(e),
                !.outcome = [state |-> "rejected", error |-> e],
                !.pc = "rejected"]]

(***************************************************************************)
(* getPaginatedResponse after its await: meta and links.  A link is the    *)
(* string path + '?page=' + p + options, kept as its three parts; options  *)
(* is the list of its '&name=value' parameters.                            *)
(***************************************************************************)
RECURSIVE sortByQuery(_)
sortByQuery(orders) ==
    IF orders = <<>> THEN <<>>
    ELSE <<[name |-> "sortBy", value |-> Head(orders)[1] \o <<":">> \o Head(orders)[2]]>>
         \o sortByQuery(Tail(orders))

RECURSIVE searchByParams(_)
searchByParams(columns) ==
    IF columns = <<>> THEN <<>>
    ELSE <<[name |-> "searchBy", value |-> Head(columns)]>> \o searchByParams(Tail(columns))

\* Array.prototype.join(',')
RECURSIVE joinComma(_)
joinComma(seq) ==
    IF seq = <<>> THEN <<>>
    ELSE IF Len(seq) = 1 THEN seq[1]
    ELSE seq[1] \o <<",">> \o joinComma(Tail(seq))

\* x?.length of an optional list
optLength(o) == IF o = None THEN None ELSE Some(Len(o[1]))

isQuerySelected(c, selectable) ==
    optLength(selectable) # optLength(c.select) /\ ~c.ignoreSelectInQueryParam

linkOptions(q, c, limit, sortable, searchable, selectable) ==
    <<[name |-> "limit", value |-> NumToStr(limit)]>>
    \o sortByQuery(sortable)
    \o (IF Truthy(q.search) THEN <<[name |-> "search", value |-> <<q.search[1]>>]>> ELSE <<>>)
    \o (IF q.searchBy # None /\ ~c.ignoreSearchByInQueryParam
        THEN (IF Len(q.searchBy[1]) > 0 THEN searchByParams(searchable) ELSE <<>>)
        ELSE <<>>)
    \o (IF isQuerySelected(c, selectable)
        THEN <<[name |-> "select",
                value |-> IF selectable = None THEN <<"undefined">> ELSE joinComma(selectable[1])]>>
        ELSE <<>>)
    \o (IF q.filter # None THEN <<[name |-> "filter", value |-> <<q.filter[1]>>]>> ELSE <<>>)

\* the link base: query.path is [origin, pathname] as getQueryUrlComponents
\* splits it (origin '' for a relative path)
linkPath(q, c) ==
    IF q.path = None THEN None
    ELSE IF c.relativePath THEN Some(<<q.path[1].pathname>>)
    ELSE IF Truthy(c.origin) THEN Some(<<c.origin[1], q.path[1].pathname>>)
    ELSE Some(<<q.path[1].origin, q.path[1].pathname>>)

buildLink(path, p, options) == [path |-> path[1], page |-> NumToStr(p), options |-> options]

NoLinks == [first |-> None, previous |-> None, current |-> None, next |-> None, last |-> None]

buildLinks(path, page, totalPages, total, options) ==
    IF path = None THEN NoLinks
    ELSE [first |-> IF page = 1 THEN None ELSE Some(buildLink(path, 1, options)),
          previous |-> IF page - 1 < 1 THEN None ELSE Some(buildLink(path, page - 1, options)),
          current |-> Some(buildLink(path, page, options)),
          next |-> IF page + 1 > totalPages THEN None ELSE Some(buildLink(path, page + 1, options)),
          last |-> IF page = totalPages \/ total = 0 THEN None
                   ELSE Some(buildLink(path, totalPages, options))]

\* const page = this.query.page > 0 ? this.query.page : 1
currentPage(q) == IF q.page = None THEN 1 ELSE IF q.page[1] > 0 THEN q.page[1] ELSE 1

totalPagesOf(q, c, total, limit) == IF isPaginated(q, c) THEN CeilDiv(total, limit) ELSE 1

metaOf(q, c, limit, rows, total, sortable, searchable, selectable) ==
    [itemsPerPage |-> IF limit = COUNTER_ONLY THEN total
                      ELSE IF isPaginated(q, c) THEN limit ELSE Len(rows),
     totalItems |-> IF limit = COUNTER_ONLY \/ isPaginated(q, c) THEN total ELSE Len(rows),
     currentPage |-> currentPage(q),
     totalPages |-> totalPagesOf(q, c, total, limit),
     sortBy |-> sortable,
     search |-> q.search,
     searchBy |-> IF Truthy(q.search) THEN Some(searchable) ELSE None,
     select |-> IF isQuerySelected(c, selectable) THEN selectable ELSE None,
     filter |-> q.filter]

Respond ==
    \E r \in DOMAIN resolutions :
       LET self == resolutions[r]
           limit == paginationLimit(self.query, self.config)
           options == linkOptions(self.query, self.config, limit, self.sortableColumns,
                                  self.searchableColumns, self.selectableColumns)
           totalPages == totalPagesOf(self.query, self.config, self.totalItems, limit)
       IN
       /\ self.pc = "fetched"
       /\ resolutions' = [resolutions EXCEPT ![r] =
             [self EXCEPT
                !.outcome =
                   [state |-> "resolved",
                    data |-> self.items,
                    meta |-> metaOf(self.query, self.config, limit, self.items,
                                    self.totalItems, self.sortableColumns,
                                    self.searchableColumns, self.selectableColumns),
                    links |-> buildLinks(linkPath(self.query, self.config),
                                         currentPage(self.query), totalPages,
                                         self.totalItems, options)],
                !.pc = "resolved"]]

Next ==
    \/ Construct
    \/ applyColumnsSelection
    \/ applyFilters
    \/ applyPagination
    \/ applySorting
    \/ applySearch
    \/ fetchResolves
    \/ fetchThrows
    \/ Respond

(***************************************************************************)
(* Inputs.  Spec explores the pagination inputs (limit, page, limits of    *)
(* the config, pagination type, path, store size) with sorting fixed;      *)
(* SortSpec explores the sort inputs with a few pagination modes.          *)
(***************************************************************************)
Opt(S) == {None} \cup {Some(v) : v \in S}

\* sequences over S of length at most n
SeqsUpTo(S, n) == UNION {[1..k -> S] : k \in 0..n}

BaseQuery ==
    [page |-> None, limit |-> None, sortBy |-> None, search |-> None, searchBy |-> None,
     select |-> None, filter |-> None, path |-> None]

BaseConfig ==
    [sortableColumns |-> <<<<"id">>>>, defaultSortBy |-> None, nullSort |-> None,
     searchableColumns |-> None, select |-> None, maxLimit |-> None, defaultLimit |-> None,
     paginationType |-> None, relativePath |-> FALSE, origin |-> None,
     ignoreSearchByInQueryParam |-> FALSE, ignoreSelectInQueryParam |-> FALSE,
     relations |-> None, where |-> None]

QueryLimits == Opt((-2..MaxSmall) \cup {10, 50})
QueryPages == Opt(0..MaxPage)
ConfigDefaultLimits == Opt((0..MaxSmall) \cup {DEFAULT_LIMIT})
ConfigMaxLimits == Opt((-1..MaxSmall) \cup {DEFAULT_LIMIT, DEFAULT_MAX_LIMIT})
PaginationTypes == Opt({"limit"})
QueryPaths == Opt({[origin |-> "", pathname |-> "/items"]})
StoreRows == (0..MaxRows) \cup {25}

StartState(q, c, st) ==
    [query |-> q, config |-> c, store |-> st,
     pc |-> "start",
     qb |-> NewQueryBuilder,
     sortableColumns |-> <<>>,
     searchableColumns |-> <<>>,
     selectableColumns |-> None,
     items |-> <<>>,
     totalItems |-> 0,
     calls |-> <<>>,
     thrown |-> None,
     outcome |-> Pending]

Init ==
    \E l \in QueryLimits, p \in QueryPages, path \in QueryPaths,
       d \in ConfigDefaultLimits, m \in ConfigMaxLimits, t \in PaginationTypes,
       n \in StoreRows :
       resolutions =
          <<StartState([BaseQuery EXCEPT !.limit = l, !.page = p, !.path = path],
                       [BaseConfig EXCEPT !.defaultLimit = d, !.maxLimit = m,
                                          !.paginationType = t],
                       [rows |-> n, dbType |-> "postgres"])>>

Spec == Init /\ [][Next]_vars

SortColumns == {<<"id">>, <<"name">>, <<"bogus">>}
SortDirections == {ASC, <<"d", "e", "s", "c">>, <<"u", "p">>}
SortableConfigs == {<<<<"id">>, <<"name">>>>, <<<<"name">>>>, <<>>}
DefaultSortBys == Opt({<<<<<<"name">>, DESC>>, <<<<"id">>, ASC>>>>})

SortInit ==
    \E s \in Opt(SeqsUpTo(SortColumns \X SortDirections, MaxSortBy)),
       l \in {None, Some(COUNTER_ONLY)}, path \in QueryPaths,
       sc \in SortableConfigs, d \in DefaultSortBys, ns \in Opt({"last"}),
       t \in {"postgres", "mysql"} :
       resolutions =
          <<StartState([BaseQuery EXCEPT !.sortBy = s, !.limit = l, !.path = path],
                       [BaseConfig EXCEPT !.sortableColumns = sc, !.defaultSortBy = d,
                                          !.nullSort = ns],
                       [rows |-> 2, dbType |-> t])>>

SortSpec == SortInit /\ [][Next]_vars

\* SearchSpec explores the search inputs
MaxSearchBy == 2
SearchTerms == Opt({"", "tom"})
SearchColumns == {<<"name">>, <<"color">>, <<"bogus">>}
SearchableConfigs == Opt({<<>>, <<<<"name">>>>, <<<<"name">>, <<"color">>>>})

SearchInit ==
    \E t \in SearchTerms, by \in Opt(SeqsUpTo(SearchColumns, MaxSearchBy)),
       f \in Opt({"age"}), path \in QueryPaths,
       sc \in SearchableConfigs, ig \in BOOLEAN,
       db \in {"postgres", "mysql"}, n \in {0, 2} :
       resolutions =
          <<StartState([BaseQuery EXCEPT !.search = t, !.searchBy = by, !.filter = f,
                                         !.path = path],
                       [BaseConfig EXCEPT !.searchableColumns = sc,
                                          !.ignoreSearchByInQueryParam = ig],
                       [rows |-> n, dbType |-> db])>>

SearchSpec == SearchInit /\ [][Next]_vars

\* SelectSpec explores the column selection inputs
MaxSelect == 2
SelectColumns == {<<"id">>, <<"name">>, <<"color">>, <<"bogus">>}
SelectConfigs ==
    Opt({<<<<"id">>, <<"name">>, <<"color">>>>, <<<<"id">>, <<"name">>>>,
         <<<<"name">>, <<"color">>>>})

SelectInit ==
    \E sel \in Opt(SeqsUpTo(SelectColumns, MaxSelect)), l \in {None, Some(COUNTER_ONLY)},
       path \in QueryPaths, sc \in SelectConfigs, ig \in BOOLEAN, n \in {0, 2} :
       resolutions =
          <<StartState([BaseQuery EXCEPT !.select = sel, !.limit = l, !.path = path],
                       [BaseConfig EXCEPT !.select = sc, !.ignoreSelectInQueryParam = ig],
                       [rows |-> n, dbType |-> "postgres"])>>

SelectSpec == SelectInit /\ [][Next]_vars

\* AliasSpec explores the kinds of column the resolver classifies: the
\* request sorts by, searches in and selects the same columns, all of them
\* configured
MaxColumns == 2
ConfiguredColumns ==
    <<<<"id">>, <<"name">>, <<"lives">>, <<"size", ".", "height">>,
      <<"toys", ".", "name">>, <<"toys", ".", "shop", ".", "name">>,
      <<"toys", ".", "shop", ".", "address", ".", "name">>,
      <<"toys", ".", "(", "size", ".", "height", ")">>,
      <<"home", ".", "name">>, <<"home", ".", "countCat">>,
      <<"den", ".", "name">>, <<"den", ".", "countCat">>>>

AliasInit ==
    \E cols \in SeqsUpTo(Range(ConfiguredColumns), MaxColumns), t \in Opt({"tom"}),
       sel \in BOOLEAN, path \in QueryPaths, db \in {"postgres", "mysql"} :
       resolutions =
          <<StartState([BaseQuery EXCEPT
                           !.sortBy = Some([i \in DOMAIN cols |-> <<cols[i], ASC>>]),
                           !.search = t,
                           !.searchBy = Some(cols),
                           !.select = IF sel THEN Some(<<<<"id">>>> \o cols) ELSE None,
                           !.path = path],
                       [BaseConfig EXCEPT !.sortableColumns = ConfiguredColumns,
                                          !.searchableColumns = Some(ConfiguredColumns),
                                          !.select = Some(ConfiguredColumns)],
                       [rows |-> 2, dbType |-> db])>>

AliasSpec == AliasInit /\ [][Next]_vars

\* ConcurrentSpec runs two resolutions at the same time, each with its own
\* query, config and builder, over the same store
ConcurrentQueries ==
    {[BaseQuery EXCEPT !.limit = l, !.search = t, !.searchBy = by, !.filter = f,
                       !.path = Some([origin |-> "", pathname |-> "/items"])] :
        l \in {None, Some(1)}, t \in Opt({"tom"}),
        by \in Opt({<<<<"name">>>>, <<<<"color">>>>}), f \in Opt({"age"})}

ConcurrentConfigs ==
    {[BaseConfig EXCEPT !.sortableColumns = sc,
                        !.searchableColumns = Some(<<<<"name">>, <<"color">>>>)] :
        sc \in {<<<<"id">>>>, <<>>}}

ConcurrentInit ==
    \E q1 \in ConcurrentQueries, q2 \in ConcurrentQueries,
       c1 \in ConcurrentConfigs, c2 \in ConcurrentConfigs :
       LET st == [rows |-> 2, dbType |-> "postgres"]
       IN resolutions = <<StartState(q1, c1, st), StartState(q2, c2, st)>>

ConcurrentSpec == ConcurrentInit /\ [][Next]_vars

\* WhereSpec explores config.relations and config.where: a predicate is one
\* object or a list of at most MaxWhere objects holding at most MaxLeaves
\* leaves in all, written in any order
MaxWhere == 2
MaxLeaves == 2

\* the key paths of the leaves a predicate may hold
WherePaths ==
    {<<<<"name">>>>, <<<<"size">>, <<"height">>>>,
     <<<<"toys">>, <<"name">>>>, <<<<"toys">>, <<"shop">>, <<"name">>>>,
     <<<<"home">>, <<"name">>>>, <<<<"home">>, <<"countCat">>>>}

\* the object literal obj with the leaf written at the key path
RECURSIVE withLeaf(_, _, _)
withLeaf(obj, path, leaf) ==
    LET key == Head(path)
        at == {i \in DOMAIN obj : obj[i].key = key}
        entry == IF Len(path) = 1
                 THEN [key |-> key, kind |-> leaf.kind, value |-> leaf.value, children |-> <<>>]
                 ELSE [key |-> key, kind |-> "object", value |-> 0,
                       children |-> withLeaf(IF at = {} THEN <<>>
                                             ELSE obj[CHOOSE i \in at : TRUE].children,
                                             Tail(path), leaf)]
    IN IF at = {} THEN Append(obj, entry)
       ELSE [obj EXCEPT ![CHOOSE i \in at : TRUE] = entry]

\* the object literal holding the leaves written for one item, in order
RECURSIVE objectOf(_, _, _)
objectOf(leaves, item, kind) ==
    IF leaves = <<>> THEN <<>>
    ELSE LET n == Len(leaves)
             before == objectOf(SubSeq(leaves, 1, n - 1), item, kind)
         IN IF leaves[n].item = item
            THEN withLeaf(before, leaves[n].path, [kind |-> kind, value |-> n])
            ELSE before

WhereLeaves == SeqsUpTo([path : WherePaths, item : 1..MaxWhere], MaxLeaves)

ConfigWheres ==
    {None}
    \cup {Some([isArray |-> FALSE, object |-> objectOf(leaves, 1, kind), array |-> <<>>]) :
             leaves \in WhereLeaves, kind \in {"primitive", "operator"}}
    \cup {Some([isArray |-> TRUE, object |-> <<>>,
                array |-> [item \in 1..n |-> objectOf(leaves, item, kind)]]) :
             leaves \in WhereLeaves, kind \in {"primitive", "operator"}, n \in 0..MaxWhere}

relation(name) == [relationName |-> name, isObject |-> FALSE, schema |-> <<>>]
relations(name, schema) == [relationName |-> name, isObject |-> TRUE, schema |-> schema]

ConfigRelations ==
    Opt({<<relation(<<"toys">>)>>,
         <<relation(<<"home">>), relations(<<"toys">>, <<relation(<<"shop">>)>>)>>,
         <<relations(<<"toys">>, <<relations(<<"shop">>, <<relation(<<"address">>)>>)>>)>>})

WhereInit ==
    \E rel \in ConfigRelations, where \in ConfigWheres :
       resolutions =
          <<StartState(BaseQuery,
                       [BaseConfig EXCEPT !.relations = rel, !.where = where],
                       [rows |-> 2, dbType |-> "postgres"])>>

WhereSpec == WhereInit /\ [][Next]_vars

(***************************************************************************)
(* Properties of the pagination calculator.                                *)
(***************************************************************************)
\* positions at which applyPagination has returned
AfterPagination == {"paginated", "sorted", "searched", "fetched", "resolved"}

\* the limit parameter written into an emitted link
linkLimit(link) == link.options[1].value

\* the decision table of the effective limit, over the resolved defaultLimit d
\* and maxLimit m
TableNotPaginated(l, m) == l = Some(COUNTER_ONLY) \/ (l = Some(NO_PAGINATION) /\ m = NO_PAGINATION)

TableLimit(l, d, m) ==
    CASE l = Some(COUNTER_ONLY) -> COUNTER_ONLY
      [] l # Some(COUNTER_ONLY) /\ TableNotPaginated(l, m) -> d
      [] ~TableNotPaginated(l, m) /\ m = NO_PAGINATION -> Coalesce(l, d)
      [] ~TableNotPaginated(l, m) /\ m # NO_PAGINATION /\ l = Some(NO_PAGINATION) -> d
      [] OTHER -> Min(Coalesce(l, d), m)

\* the limit the resolution is seen to use equals e: the row count set on the
\* builder when paginated, and the limit written into the links
UsesLimit(e) ==
    /\ (pc \in AfterPagination /\ rowCount(qb) # None) => rowCount(qb) = Some(e)
    /\ (pc = "resolved" /\ outcome.links.current # None)
          => linkLimit(outcome.links.current[1]) = NumToStr(e)

\* C1 (as stated): for every integer or unset query.limit and every config,
\* with defaultLimit unset -> 20 and maxLimit unset -> 100, the effective limit
\* equals the decision table.
C1_TableUnsetOnly ==
    UsesLimit(TableLimit(query.limit, Coalesce(config.defaultLimit, DEFAULT_LIMIT),
                         Coalesce(config.maxLimit, DEFAULT_MAX_LIMIT)))

\* a defaultLimit or maxLimit that is unset or 0 resolves to its default
ResolvedDefaultLimit ==
    IF config.defaultLimit \in {None, Some(0)} THEN DEFAULT_LIMIT ELSE config.defaultLimit[1]
ResolvedMaxLimit ==
    IF config.maxLimit \in {None, Some(0)} THEN DEFAULT_MAX_LIMIT ELSE config.maxLimit[1]

\* C1 (amended): for every integer or unset query.limit and every config, with
\* defaultLimit unset or 0 -> 20 and maxLimit unset or 0 -> 100, the effective
\* limit computed by paginationLimit equals the decision table.
C1_EffectiveLimitTable ==
    UsesLimit(TableLimit(query.limit, ResolvedDefaultLimit, ResolvedMaxLimit))

\* a request without limit under defaultLimit 0 has been answered with 20 items per page
C1_Witness ==
    /\ pc = "resolved"
    /\ query.limit = None
    /\ config.defaultLimit = Some(0)
    /\ config.maxLimit = None
    /\ outcome.meta.itemsPerPage = DEFAULT_LIMIT
    /\ rowCount(qb) = Some(DEFAULT_LIMIT)

\* C2: isPaginated is false iff query.limit = COUNTER_ONLY, or query.limit =
\* NO_PAGINATION and the resolved maxLimit = NO_PAGINATION; it is true in every
\* other case.  Seen on the builder: a row window is set iff the request is paginated.
C2_IsPaginatedIff ==
    LET notPaginated == TableNotPaginated(query.limit, ResolvedMaxLimit) IN
    pc \in AfterPagination => ((rowCount(qb) = None /\ rowStart(qb) = None) <=> notPaginated)

\* limit -1 under an unset maxLimit has been applied as a paginated request
C2_Witness ==
    /\ pc = "paginated"
    /\ query.limit = Some(NO_PAGINATION)
    /\ config.maxLimit = None
    /\ rowCount(qb) # None

\* C3: whenever the resolved maxLimit is not NO_PAGINATION and the request is
\* paginated, the effective limit applied to the builder and reported as
\* meta.itemsPerPage never exceeds maxLimit.
C3_LimitNeverExceedsMax ==
    (ResolvedMaxLimit # NO_PAGINATION /\ ~TableNotPaginated(query.limit, ResolvedMaxLimit))
       => /\ (pc \in AfterPagination => rowCount(qb)[1] <= ResolvedMaxLimit)
          /\ (pc = "resolved" => outcome.meta.itemsPerPage <= ResolvedMaxLimit)

\* the config is one the limits are meant for: defaultLimit at least 1 or
\* unset, maxLimit at least 1, NO_PAGINATION or unset
LimitsInDomain ==
    /\ (config.defaultLimit = None \/ config.defaultLimit[1] >= 1)
    /\ (config.maxLimit = None \/ config.maxLimit[1] >= 1 \/ config.maxLimit[1] = NO_PAGINATION)

\* C28: whenever the request is paginated, the row count applied to the
\* builder is at least 1 and the start offset is at least 0, for every integer
\* query.limit (including values below -1), every integer or unset query.page
\* and every config whose defaultLimit is at least 1 or unset and whose
\* maxLimit is at least 1, -1 or unset; in particular the divisor of
\* totalPages is never 0.
C28_PaginatedWindowPositive ==
    (LimitsInDomain /\ pc \in AfterPagination /\ rowCount(qb) # None)
       => /\ rowCount(qb)[1] >= 1
          /\ rowStart(qb)[1] >= 0
          /\ pc = "resolved" => outcome.meta.itemsPerPage # 0

(***************************************************************************)
(* Properties of the execution.                                            *)
(***************************************************************************)
FetchNames == {"getCount", "getManyAndCount", "getMany"}
fetchCalls == FilterSeq(calls, FetchNames)

\* C4: a requested limit of 0 always selects counter-only mode: no
\* limit/offset/take/skip is applied to the builder, only a count is fetched,
\* data = [] and meta.totalItems is the count of the store for the built query.
C4_CounterOnly ==
    query.limit = Some(COUNTER_ONLY)
       => /\ qb.limit = None /\ qb.offset = None /\ qb.take = None /\ qb.skip = None
          /\ Range(fetchCalls) \subseteq {"getCount"}
          /\ (pc = "resolved" => /\ fetchCalls = <<"getCount">>
                                 /\ outcome.data = <<>>
                                 /\ outcome.meta.totalItems = store.rows)

\* a counter-only request over a non-empty store has been answered
C4_Witness ==
    /\ pc = "resolved"
    /\ query.limit = Some(COUNTER_ONLY)
    /\ store.rows = 3
    /\ outcome.meta.totalItems = 3
    /\ outcome.data = <<>>

\* the call the mode of the request selects
ModeCall ==
    IF query.limit = Some(COUNTER_ONLY) THEN "getCount"
    ELSE IF ~TableNotPaginated(query.limit, ResolvedMaxLimit) THEN "getManyAndCount"
    ELSE "getMany"

\* C5: a resolution that reaches execution makes exactly one call into the
\* execution collaborator, chosen by mode (getCount / getManyAndCount /
\* getMany, the last with totalItems = number of rows returned); no second call
\* follows and a failure of the call propagates unchanged.
C5_OneFetchByMode ==
    /\ Len(fetchCalls) <= 1
    /\ (pc \in {"fetched", "resolved"} \/ thrown # None) => fetchCalls = <<ModeCall>>
    /\ (pc = "resolved" /\ ModeCall = "getMany")
          => outcome.meta.totalItems = Len(outcome.data)
    /\ thrown # None => (pc = "rejected" /\ outcome = [state |-> "rejected", error |-> thrown[1]])

\* an unpaginated request has been answered from a single getMany
C5_Witness ==
    /\ pc = "resolved"
    /\ fetchCalls = <<"getMany">>
    /\ Len(outcome.data) = 3
    /\ outcome.meta.totalItems = 3

\* C6: for a paginated request applyPagination uses page = max(query.page, 1)
\* (1 when unset), row count = effectiveLimit and start = (page - 1) *
\* effectiveLimit; limit/offset and take/skip receive the same (count, start).
C6_PageWindow ==
    (pc \in AfterPagination /\ ~TableNotPaginated(query.limit, ResolvedMaxLimit))
       => LET page == IF query.page = None THEN 1
                      ELSE IF query.page[1] >= 1 THEN query.page[1] ELSE 1
              count == Some(TableLimit(query.limit, ResolvedDefaultLimit, ResolvedMaxLimit))
              start == Some((page - 1) * count[1])
          IN IF config.paginationType = Some("limit")
             THEN qb.limit = count /\ qb.offset = start /\ qb.take = None /\ qb.skip = None
             ELSE qb.take = count /\ qb.skip = start /\ qb.limit = None /\ qb.offset = None

\* page 3 with limit 2 has been applied as limit 2 offset 4
C6_Witness ==
    /\ pc = "paginated"
    /\ query.page = Some(3)
    /\ query.limit = Some(2)
    /\ config.paginationType = Some("limit")
    /\ qb.limit = Some(2)
    /\ qb.offset = Some(4)

\* C7: meta.totalPages is ceil(totalItems / effectiveLimit) when the request is
\* paginated and 1 otherwise; 25 rows, page 2, limit 10, defaultLimit 20,
\* maxLimit 100 give totalItems 25, totalPages 3, 10 rows and currentPage 2.
C7_TotalPages ==
    pc = "resolved"
       => LET m == outcome.meta
              tp == m.totalPages
              limit == m.itemsPerPage
          IN /\ TableNotPaginated(query.limit, ResolvedMaxLimit) => tp = 1
             /\ (~TableNotPaginated(query.limit, ResolvedMaxLimit) /\ limit > 0)
                   => (tp * limit >= m.totalItems /\ (tp - 1) * limit < m.totalItems)
             /\ (~TableNotPaginated(query.limit, ResolvedMaxLimit) /\ limit < 0)
                   => (tp * limit <= m.totalItems /\ (tp - 1) * limit > m.totalItems)
             /\ (/\ store.rows = 25 /\ query.page = Some(2) /\ query.limit = Some(10)
                 /\ config.defaultLimit = Some(20) /\ config.maxLimit = Some(100))
                   => (/\ m.totalItems = 25 /\ tp = 3 /\ Len(outcome.data) = 10
                       /\ m.currentPage = 2)

\* the scenario of 25 rows, page 2, limit 10 has been answered
C7_Witness ==
    /\ pc = "resolved"
    /\ store.rows = 25 /\ query.page = Some(2) /\ query.limit = Some(10)
    /\ config.defaultLimit = Some(20) /\ config.maxLimit = Some(100)
    /\ outcome.meta.totalPages = 3
    /\ outcome.data = <<11, 12, 13, 14, 15, 16, 17, 18, 19, 20>>

(***************************************************************************)
(* Properties of the links.                                                *)
(***************************************************************************)
\* C8: links are emitted only when query.path is non-null; when emitted, first
\* is omitted iff page = 1, previous iff page <= 1, next iff page + 1 >
\* totalPages, last iff page = totalPages or totalItems = 0, and current is
\* always present.
C8_LinkPresence ==
    pc = "resolved"
       => LET links == outcome.links
              page == outcome.meta.currentPage
              totalPages == outcome.meta.totalPages
          IN IF query.path = None THEN links = NoLinks
             ELSE /\ links.current # None
                  /\ (links.first = None) <=> (page = 1)
                  /\ (links.previous = None) <=> (page <= 1)
                  /\ (links.next = None) <=> (page + 1 > totalPages)
                  /\ (links.last = None) <=> (page = totalPages \/ outcome.meta.totalItems = 0)

(***************************************************************************)
(* Properties of the sort engine.                                          *)
(***************************************************************************)
AfterSorting == {"sorted", "searched", "fetched", "resolved"}

\* the (column, direction) pairs of the ORDER BY calls that carry a direction
RECURSIVE orderedPairs(_)
orderedPairs(orderBys) ==
    IF orderBys = <<>> THEN <<>>
    ELSE IF Head(orderBys).order = None THEN orderedPairs(Tail(orderBys))
    ELSE <<<<Head(orderBys).sort, Head(orderBys).order[1]>>>> \o orderedPairs(Tail(orderBys))

\* C10: a requested sortBy entry is accepted into the applied sort list only if
\* its column is in config.sortableColumns and its upper-cased direction is
\* exactly ASC or DESC; every other entry is dropped without raising an error,
\* and accepted entries keep their request order in the ORDER BY calls and in
\* meta.sortBy.  (Stated for a non-empty config.sortableColumns.)
C10_SortValidation ==
    (pc # "start" /\ config.sortableColumns # <<>>)
       => LET Valid(order) == /\ order[1] \in Range(config.sortableColumns)
                              /\ toUpperCase(order[2]) \in {ASC, DESC}
              requested == IF query.sortBy = None THEN <<>> ELSE query.sortBy[1]
              accepted == SelectSeq(requested, Valid)
              fallback == IF config.defaultSortBy # None THEN config.defaultSortBy[1]
                          ELSE <<<<config.sortableColumns[1], ASC>>>>
          IN /\ accepted # <<>> => sortableColumns = accepted
             /\ accepted = <<>> => Range(sortableColumns) \subseteq Range(fallback)
             /\ pc = "rejected" => thrown # None
             /\ pc \in AfterSorting => orderedPairs(qb.orderBys) = sortableColumns
             /\ pc = "resolved" => outcome.meta.sortBy = sortableColumns

\* a requested order the sort contract accepts
ValidOrder(order) ==
    /\ order[1] \in Range(config.sortableColumns)
    /\ toUpperCase(order[2]) \in {ASC, DESC}

\* no requested sort entry is accepted: sortBy absent, empty, or all invalid
NoOrderAccepted ==
    query.sortBy = None \/ SelectSeq(query.sortBy[1], ValidOrder) = <<>>

\* C11: sort fallback: when no requested sort entry is accepted (sortBy absent,
\* empty, or all entries invalid), the applied sort list is exactly
\* config.defaultSortBy (all of its entries, in order) if it is present, else
\* exactly the single entry (sortableColumns[0], ASC).
C11_SortFallback ==
    (pc # "start" /\ config.sortableColumns # <<>> /\ NoOrderAccepted)
       => LET fallback == IF config.defaultSortBy # None THEN config.defaultSortBy[1]
                          ELSE <<<<config.sortableColumns[1], ASC>>>>
          IN /\ sortableColumns = fallback
             /\ pc \in AfterSorting => orderedPairs(qb.orderBys) = fallback
             /\ pc = "resolved" => outcome.meta.sortBy = fallback

\* C12: when config.sortableColumns is empty, paginate fails with a
\* service-unavailable error for every query (whatever sortBy or defaultSortBy
\* contain): the resolution can always proceed until it is rejected, it is
\* rejected by applySorting with that error and never resolves, the failure is
\* raised before any ORDER BY is added to the builder, and no fetch (getCount,
\* getMany, getManyAndCount) is ever executed.
C12_EmptySortableColumnsFatal ==
    config.sortableColumns = <<>>
       => /\ qb.orderBys = <<>>
          /\ fetchCalls = <<>>
          /\ thrown = None
          /\ pc \notin AfterSorting
          /\ pc # "rejected" => (ENABLED Next /\ outcome = Pending)
          /\ Includes(calls, "applySorting")
                => /\ pc = "rejected"
                   /\ outcome = [state |-> "rejected", error |-> ServiceUnavailableException]

C12_Witness ==
    /\ config.sortableColumns = <<>>
    /\ query.sortBy # None /\ query.sortBy[1] # <<>>
    /\ config.defaultSortBy # None
    /\ pc = "rejected"
    /\ outcome.error = ServiceUnavailableException

(***************************************************************************)
(* Properties of the search engine.                                        *)
(***************************************************************************)
AfterSearch == {"searched", "fetched", "resolved"}

\* the configured searchable columns, none when the option is absent
ConfiguredSearchable ==
    IF config.searchableColumns = None THEN <<>> ELSE config.searchableColumns[1]

IsConfiguredSearchable(column) == column \in Range(ConfiguredSearchable)

\* the search groups added to the WHERE clause of the builder
searchGroups == SelectSeq(qb.wheres, LAMBDA w : w.kind = "search")

\* C14: the resolved searchable columns are config.searchableColumns when
\* query.searchBy is absent or ignoreSearchByInQueryParam is set, and otherwise
\* exactly the entries of query.searchBy that are members of
\* config.searchableColumns (in request order); in every case the resolved list
\* is a subset of config.searchableColumns and is empty when
\* config.searchableColumns is absent or empty.
C14_SearchableColumns ==
    pc # "start"
       => /\ searchableColumns =
                IF query.searchBy = None \/ config.ignoreSearchByInQueryParam
                THEN ConfiguredSearchable
                ELSE SelectSeq(query.searchBy[1], IsConfiguredSearchable)
          /\ Range(searchableColumns) \subseteq Range(ConfiguredSearchable)
          /\ ConfiguredSearchable = <<>> => searchableColumns = <<>>
          /\ \A i \in DOMAIN searchGroups : searchGroups[i].columns = searchableColumns
          /\ (pc = "resolved" /\ outcome.meta.searchBy # None)
                => outcome.meta.searchBy[1] = searchableColumns

C14_Witness ==
    /\ pc = "resolved"
    /\ query.searchBy = Some(<<<<"bogus">>, <<"color">>>>)
    /\ ~config.ignoreSearchByInQueryParam
    /\ config.searchableColumns = Some(<<<<"name">>, <<"color">>>>)
    /\ searchableColumns = <<<<"color">>>>
    /\ outcome.meta.searchBy = Some(<<<<"color">>>>)

\* C15: applySearch adds to the builder exactly one bracketed group, combined
\* with the existing predicates by AND, that contains one OR-ed
\* case-insensitive `%search%` match per resolved searchable column, if and
\* only if query.search is non-empty and at least one searchable column is
\* resolved; otherwise it leaves the builder's WHERE clause and parameters
\* unchanged.
C15_SearchGroup ==
    [][pc = calledAt("applySearch")
         => /\ pc' = returnedFrom("applySearch")
            /\ [qb' EXCEPT !.wheres = <<>>, !.parameters = {}]
                  = [qb EXCEPT !.wheres = <<>>, !.parameters = {}]
            /\ IF query.search \notin {None, Some("")} /\ searchableColumns # <<>>
               THEN /\ Len(qb'.wheres) = Len(qb.wheres) + 1
                    /\ SubSeq(qb'.wheres, 1, Len(qb.wheres)) = qb.wheres
                    /\ qb.parameters \subseteq qb'.parameters
                    /\ LET group == qb'.wheres[Len(qb'.wheres)] IN
                       /\ group.kind = "search"
                       /\ group.combinator = "AND"
                       /\ Len(group.conditions) = Len(searchableColumns)
                       /\ \A i \in DOMAIN searchableColumns :
                             LET cond == group.conditions[i] IN
                             /\ cond.combinator = "OR"
                             /\ cond.operator = "ilike"
                             /\ cond.right = <<":">> \o cond.parameter[1]
                             /\ cond.parameter[2] = <<"%", query.search[1], "%">>
                             /\ cond.parameter \in qb'.parameters
                             /\ cond.left \in {searchAlias(searchableColumns[i]),
                                               <<"CAST", "(">> \o searchAlias(searchableColumns[i])
                                                  \o <<" ", "AS", " ", "text", ")">>}
               ELSE /\ qb'.wheres = qb.wheres
                    /\ qb'.parameters = qb.parameters]_vars

C15_Witness ==
    /\ pc = "searched"
    /\ Len(qb.wheres) = 2
    /\ qb.wheres[1].kind = "filter"
    /\ qb.wheres[2].kind = "search"
    /\ Len(qb.wheres[2].conditions) = 2
    /\ Cardinality(qb.parameters) = 2

\* C16: meta.searchBy is included in the response only when the request's
\* searchBy diverges from the config default (config.searchableColumns); when
\* the request does not specify searchBy, or specifies the full configured
\* list, meta.searchBy is omitted.
C16_MetaSearchByOnlyWhenDiverging ==
    pc = "resolved"
       => /\ outcome.meta.searchBy # None
                => (query.searchBy # None /\ query.searchBy[1] # ConfiguredSearchable)
          /\ (query.searchBy = None \/ query.searchBy = Some(ConfiguredSearchable))
                => outcome.meta.searchBy = None

(***************************************************************************)
(* Properties of the column selection.                                     *)
(***************************************************************************)
\* the select parameters of an emitted link
linkSelects(link) == SelectSeq(link.options, LAMBDA o : o.name = "select")

\* the request names every primary key column
SelectsPrimaryKey ==
    query.select # None /\ \A i \in DOMAIN primaryColumns : primaryColumns[i] \in Range(query.select[1])

\* the request names every configured column
SelectsAllConfigured ==
    query.select # None /\ config.select # None
       /\ Range(config.select[1]) \subseteq Range(query.select[1])

\* C17: meta.select (and the select parameter of the links) is included only
\* when the effective selected column set differs from config.select and
\* ignoreSelectInQueryParam is not set; when query.select is absent, ignored,
\* lacks a primary-key column (fallback to config.select), or selects every
\* configured column, meta.select is omitted.
C17_MetaSelectOnlyWhenDiverging ==
    pc = "resolved"
       => LET included == outcome.meta.select # None
              current == outcome.links.current
          IN /\ included => (selectableColumns # config.select /\ ~config.ignoreSelectInQueryParam)
             /\ included => outcome.meta.select = selectableColumns
             /\ (\/ query.select = None
                 \/ config.ignoreSelectInQueryParam
                 \/ ~SelectsPrimaryKey
                 \/ SelectsAllConfigured) => ~included
             /\ current # None
                   => /\ included <=> linkSelects(current[1]) # <<>>
                      /\ included => linkSelects(current[1])
                                        = <<[name |-> "select",
                                             value |-> Join(selectableColumns[1], ",")]>>

C17_Witness ==
    /\ pc = "resolved"
    /\ query.select = Some(<<<<"name">>, <<"id">>>>)
    /\ config.select = Some(<<<<"id">>, <<"name">>, <<"color">>>>)
    /\ outcome.meta.select = Some(<<<<"id">>, <<"name">>>>)
    /\ outcome.links.current # None
    /\ linkSelects(outcome.links.current[1]) # <<>>

\* positions at which applyColumnsSelection has returned
AfterSelection == {"selected", "filtered", "paginated", "sorted", "searched", "fetched",
                   "resolved", "rejected"}

\* the candidate list lacks a primary-key column of the root entity
CandidateLacksPrimaryKey ==
    \/ selectableColumns = None
    \/ \E i \in DOMAIN primaryColumns : primaryColumns[i] \notin Range(selectableColumns[1])

\* C30: whenever applyColumnsSelection applies a select list to the builder,
\* that list covers every primary-key column of the root entity and contains
\* only columns of config.select (each under the alias the resolver gives it);
\* when the candidate list lacks a primary-key column or config.select is
\* absent, the builder's selection is left unchanged.
C30_SelectCoversPrimaryKey ==
    pc \in AfterSelection
       => /\ qb.select # None
                => /\ config.select # None
                   /\ \A i \in DOMAIN primaryColumns :
                         selectAlias(primaryColumns[i]) \in Range(qb.select[1])
                   /\ \A alias \in Range(qb.select[1]) :
                         \E column \in Range(config.select[1]) : alias = selectAlias(column)
          /\ (config.select = None \/ CandidateLacksPrimaryKey) => qb.select = None

C30_Witness ==
    /\ pc = "resolved"
    /\ config.select = Some(<<<<"id">>, <<"name">>, <<"color">>>>)
    /\ query.select = Some(<<<<"color">>, <<"id">>>>)
    /\ qb.select = Some(<<<<"id">>, <<"color">>>>)

(***************************************************************************)
(* Properties of the column path resolver.                                 *)
(***************************************************************************)
\* the segments of a dotted column but the last: the path that leads to it
leadingPath(column) ==
    LET segments == Split(column, ".") IN SubSeq(segments, 1, Len(segments) - 1)

\* the column is reached through a relation of the root entity
ThroughRelation(column) == leadingPath(column) # <<>> /\ leadingPath(column)[1] \in RelationPaths

\* the aliases applySorting passed to addOrderBy, one per applied order
sortedAliases ==
    LET directed == SelectSeq(qb.orderBys, LAMBDA o : o.order # None)
    IN [i \in DOMAIN directed |-> directed[i].sort]

\* the aliases applySearch matched against, one per searched column
searchedAliases ==
    IF searchGroups = <<>> THEN <<>>
    ELSE [i \in DOMAIN searchGroups[1].conditions |-> searchGroups[1].conditions[i].left]

\* columns resolve to aliases without collision: the same column to the same
\* alias, two columns reached through distinct relation paths to distinct
\* aliases
CollisionFree(columns, aliases) ==
    \A i, j \in DOMAIN columns :
       /\ columns[i] = columns[j] => aliases[i] = aliases[j]
       /\ (ThroughRelation(columns[i]) /\ ThroughRelation(columns[j])
             /\ leadingPath(columns[i]) # leadingPath(columns[j]))
             => aliases[i] # aliases[j]

\* C18: alias resolution is deterministic and collision-free: resolving the
\* same dotted column against the same metadata twice yields the identical
\* alias string, and two columns reached through distinct relation paths
\* (distinct propertyPath, or distinct nested relation segments) never resolve
\* to the same alias string.
C18_AliasCollisionFree ==
    /\ pc \in AfterSorting
          => /\ Len(sortedAliases) = Len(sortableColumns)
             /\ CollisionFree([i \in DOMAIN sortableColumns |-> sortableColumns[i][1]],
                              sortedAliases)
    /\ (pc \in AfterSearch /\ searchGroups # <<>>)
          => /\ Len(searchedAliases) = Len(searchableColumns)
             /\ CollisionFree(searchableColumns, searchedAliases)

(***************************************************************************)
(* Properties of the pipeline.                                             *)
(***************************************************************************)
\* C13: in every resolution the stages run exactly once each in the fixed
\* order column selection, filters, pagination, sorting, search, and the fetch
\* is issued only after all five stages have completed; no stage runs after the
\* fetch.
C13_StageOrder ==
    LET stages == <<"constructor", "applyColumnsSelection", "applyFilters", "applyPagination",
                    "applySorting", "applySearch">>
    IN /\ Len(calls) <= Len(stages) + 1
       /\ \A i \in DOMAIN calls :
             IF i <= Len(stages) THEN calls[i] = stages[i] ELSE calls[i] \in FetchNames
       /\ (pc \in {"fetched", "resolved"} \/ thrown # None) => Len(calls) = Len(stages) + 1

C13_Witness ==
    /\ pc = "resolved"
    /\ Len(calls) = 7
    /\ calls[7] = "getManyAndCount"
    /\ Len(outcome.data) > 1

\* a plain column: no relation, not embedded, not virtual
IsPlainColumn(column) ==
    /\ leadingPath(column) = <<>>
    /\ ~extractVirtualProperty(getPropertiesByColumnName(column)).isVirtualProperty

\* a column of an embedded entity of the root entity
IsEmbeddedColumn(column) ==
    /\ Len(leadingPath(column)) = 1
    /\ leadingPath(column)[1] \in EmbeddedPaths

\* the alias the naming scheme gives a plain or an embedded column
QualifiedAlias(column) ==
    LET segments == Split(column, ".") IN
    IF IsPlainColumn(column) THEN RootAlias \o <<".">> \o segments[1]
    ELSE RootAlias \o <<".">> \o segments[1] \o <<".">> \o segments[2]

\* C20: for a plain column (no relation, not embedded, not virtual)
\* fixColumnAlias returns `alias.propertyName`, i.e. the column name qualified
\* by the builder alias, and for an embedded column it returns
\* `alias.propertyPath.propertyName`.
C20_PlainAndEmbeddedAlias ==
    pc \in AfterSorting
       => \A i \in DOMAIN sortableColumns :
             LET column == sortableColumns[i][1] IN
             (IsPlainColumn(column) \/ IsEmbeddedColumn(column))
                => sortedAliases[i] = QualifiedAlias(column)

\* the virtual column a dotted column names, and its query, if it names one
virtualOf(column) == extractVirtualProperty(getPropertiesByColumnName(column))

\* a virtual column reached through a relation of the root entity
IsRelationVirtual(column) ==
    /\ Len(leadingPath(column)) = 1
    /\ leadingPath(column)[1] \in RelationPaths
    /\ virtualOf(column).isVirtualProperty

\* the alias of the join a relation of the root entity is reached through
RelationAlias(propertyPath) == RootAlias \o <<"_">> \o propertyPath \o <<"_", "rel">>

\* the left operand of a search condition, without the cast to text
uncast(left) ==
    IF startsWith(left, "CAST") THEN SubSeq(left, 3, Len(left) - 5) ELSE left

\* an alias without the quotes applySorting puts round a virtual column
unquoted(alias) ==
    IF startsWith(alias, Backtick) \/ startsWith(alias, DoubleQuote)
    THEN SubSeq(alias, 2, Len(alias) - 1)
    ELSE alias

\* C21: for a virtual column reached through a relation, fixColumnAlias applies
\* the custom expression to the relation alias `alias_propertyPath_rel` (result
\* wrapped in parentheses) when an expression exists, and returns
\* `alias_propertyPath_rel_propertyName` when it does not; the root alias alone
\* is used only when there is no relation context.
C21_RelationVirtualAlias ==
    /\ (pc \in AfterSearch /\ searchGroups # <<>>)
          => \A i \in DOMAIN searchableColumns :
                LET column == searchableColumns[i]
                    segments == Split(column, ".")
                IN IsRelationVirtual(column)
                      => uncast(searchedAliases[i])
                            = <<"(">> \o applyQuery(virtualOf(column).query[1],
                                                    RelationAlias(segments[1]))
                              \o <<")">>
    /\ pc \in AfterSorting
          => \A i \in DOMAIN sortableColumns :
                LET column == sortableColumns[i][1]
                    segments == Split(column, ".")
                IN IsRelationVirtual(column)
                      => unquoted(sortedAliases[i])
                            = RelationAlias(segments[1]) \o <<"_">> \o segments[2]

\* a column reached through a relation of the root entity that is not a
\* virtual column of the joined entity
IsRelationColumn(column) == ThroughRelation(column) /\ ~virtualOf(column).isVirtualProperty

\* `_s1_rel_s2_rel...` for the segments s1, s2, ...
RECURSIVE hops(_)
hops(segments) ==
    IF segments = <<>> THEN <<>>
    ELSE <<"_">> \o Head(segments) \o <<"_", "rel">> \o hops(Tail(segments))

\* the alias the naming scheme gives a non-virtual column reached through a
\* relation
RelationColumnAlias(column) ==
    LET segments == Split(column, ".")
        rest == Tail(segments)
        nested == Len(rest) >= 2 /\ ~startsWith(rest[1], "(")
    IN IF nested
       THEN RelationAlias(segments[1]) \o hops(SubSeq(rest, 1, Len(rest) - 1))
            \o <<".">> \o rest[Len(rest)]
       ELSE RelationAlias(segments[1]) \o <<".">>
            \o SelectSeq(Join(rest, "."), LAMBDA t : t \notin {"(", ")"})

\* the aliases applyColumnsSelection passed to select, one per selected column
selectedAliases == IF qb.select = None THEN <<>> ELSE qb.select[1]

\* every non-virtual relation column among columns has the scheme's alias
RelationAliasesFollowScheme(columns, aliases) ==
    /\ Len(aliases) = Len(columns)
    /\ \A i \in DOMAIN columns :
          IsRelationColumn(columns[i]) => aliases[i] = RelationColumnAlias(columns[i])

\* C22: for a non-virtual column reached through a relation, fixColumnAlias
\* returns `alias_propertyPath_rel.propertyName` when the path is not nested,
\* and for a nested path whose propertyName is s1.s2...sn returns
\* `alias_propertyPath_rel_s1_rel_..._s(n-1)_rel.sn` (every segment but the
\* last mapped to segment_rel and joined with underscores).
C22_RelationColumnAlias ==
    /\ pc \in AfterSorting
          => RelationAliasesFollowScheme([i \in DOMAIN sortableColumns |-> sortableColumns[i][1]],
                                         sortedAliases)
    /\ (pc \in AfterSearch /\ searchGroups # <<>>)
          => RelationAliasesFollowScheme(searchableColumns,
                                         [i \in DOMAIN searchedAliases |->
                                             uncast(searchedAliases[i])])
    /\ (pc \notin {"start", "constructed"} /\ qb.select # None)
          => RelationAliasesFollowScheme(selectableColumns[1], selectedAliases)

C22_Witness ==
    /\ pc = "resolved"
    /\ Len(sortableColumns) = 2
    /\ sortableColumns[1][1] = <<"toys", ".", "shop", ".", "address", ".", "name">>
    /\ sortableColumns[2][1] = <<"home", ".", "name">>
    /\ sortedAliases[1] = <<"__root", "_", "toys", "_", "rel", "_", "shop", "_", "rel",
                            "_", "address", "_", "rel", ".", "name">>
    /\ sortedAliases[2] = <<"__root", "_", "home", "_", "rel", ".", "name">>
    /\ qb.select # None

\* the columns a resolution has split so far: the resolved sortable and
\* searchable columns and the configured select list
resolvedColumns ==
    IF pc \in {"start", "constructed"} THEN {}
    ELSE (IF config.select = None THEN {} ELSE Range(config.select[1]))
         \cup (IF pc \in AfterSorting THEN {sortableColumns[i][1] : i \in DOMAIN sortableColumns}
               ELSE {})
         \cup (IF pc \in AfterSearch THEN Range(searchableColumns) ELSE {})

\* the names of the parameters applySearch bound, one per searched column
searchParameterNames ==
    IF searchGroups = <<>> THEN <<>>
    ELSE [i \in DOMAIN searchGroups[1].conditions |->
             searchGroups[1].conditions[i].parameter[1]]

\* the text of the segments after the first, dots restored
remainder(column) ==
    LET dot == CHOOSE k \in DOMAIN column : column[k] = "." /\ \A j \in 1..(k - 1) : column[j] # "."
    IN SubSeq(column, dot + 1, Len(column))

\* the properties the splitting rule gives a column whose remainder is named name
splitAs(column, name) ==
    LET segments == Split(column, ".") IN
    IF Len(segments) = 1
    THEN [propertyPath |-> None, propertyName |-> column, isNested |-> FALSE, column |-> column]
    ELSE [propertyPath |-> Some(segments[1]),
          propertyName |-> name,
          isNested |-> Len(segments) - 1 >= 2 /\ remainder(column)[1] # "(",
          column |-> segments[1] \o <<".">> \o name]

\* the remainder without its first opening and its first closing parenthesis
unescaped(name) ==
    LET opening == {k \in DOMAIN name : name[k] = "("}
        closing == {k \in DOMAIN name : name[k] = ")"}
        dropped == (IF opening = {} THEN {} ELSE {CHOOSE k \in opening : \A j \in opening : k <= j})
                   \cup (IF closing = {} THEN {} ELSE {CHOOSE k \in closing : \A j \in closing : k <= j})
        kept(n) == Cardinality({k \in 1..n : k \notin dropped})
    IN [i \in 1..kept(Len(name)) |->
           name[CHOOSE k \in DOMAIN name : k \notin dropped /\ kept(k) = i]]

\* C23 (as stated): getPropertiesByColumnName splits a dotted column so that a
\* single-segment column yields no propertyPath, propertyName = column = the
\* segment and isNested = false; a multi-segment column yields propertyPath =
\* first segment, propertyName = the remaining segments rejoined with '.',
\* column = `propertyPath.propertyName`, and isNested = true exactly when the
\* remainder has at least two segments and does not start with '('.
C23_SplitRejoined ==
    /\ \A column \in resolvedColumns :
          getPropertiesByColumnName(column)
             = splitAs(column, IF Len(Split(column, ".")) = 1 THEN column ELSE remainder(column))
    /\ \A i \in DOMAIN searchParameterNames :
          searchParameterNames[i] = searchableColumns[i]

\* C23 (amended): as above, but the propertyName of a multi-segment column is
\* the remaining segments rejoined with '.' with the first '(' and the first
\* ')' removed, and column is `propertyPath.propertyName` with that
\* propertyName.
C23_SplitRule ==
    /\ \A column \in resolvedColumns :
          getPropertiesByColumnName(column)
             = splitAs(column, IF Len(Split(column, ".")) = 1 THEN column
                               ELSE unescaped(remainder(column)))
    /\ \A i \in DOMAIN searchParameterNames :
          searchParameterNames[i]
             = IF Len(Split(searchableColumns[i], ".")) = 1 THEN searchableColumns[i]
               ELSE Split(searchableColumns[i], ".")[1] \o <<".">>
                    \o unescaped(remainder(searchableColumns[i]))

C23_Witness ==
    /\ pc = "resolved"
    /\ searchableColumns = <<<<"toys", ".", "(", "size", ".", "height", ")">>,
                             <<"toys", ".", "shop", ".", "name">>>>
    /\ searchParameterNames = <<<<"toys", ".", "size", ".", "height">>,
                                <<"toys", ".", "shop", ".", "name">>>>
    /\ ~getPropertiesByColumnName(searchableColumns[1]).isNested
    /\ getPropertiesByColumnName(searchableColumns[2]).isNested

(***************************************************************************)
(* Properties of the predicate flattener and of the joins of the builder.  *)
(***************************************************************************)
\* the objects of config.where, none when the option is absent
whereObjects ==
    IF config.where = None THEN <<>>
    ELSE IF config.where[1].isArray THEN config.where[1].array ELSE <<config.where[1].object>>

\* the leaves of a predicate object in the order of its keys, each with its
\* dotted key path
RECURSIVE leavesOf(_, _)
leavesOf(obj, parentKey) ==
    IF obj = <<>> THEN <<>>
    ELSE LET entry == Head(obj)
             joinedKey == IF parentKey = <<>> THEN entry.key ELSE parentKey \o <<".">> \o entry.key
         IN (IF entry.kind = "object" THEN leavesOf(entry.children, joinedKey)
             ELSE <<[key |-> joinedKey, kind |-> entry.kind, value |-> entry.value]>>)
            \o leavesOf(Tail(obj), parentKey)

\* every leaf of config.where
whereLeaves ==
    UNION {Range(leavesOf(whereObjects[i], <<>>)) : i \in DOMAIN whereObjects}

\* the conditions the builder was given for config.where
whereGroups == SelectSeq(qb.wheres, LAMBDA w : w.kind = "where")

\* the text between the parentheses of a condition
unwrapped(condition) == SubSeq(condition, 2, Len(condition) - 1)

\* the comparisons of an AND-group
comparisonsOf(group) == IF group = <<>> THEN <<>> ELSE Split(group, " AND ")

\* C24: generateWhereStatement composes its output so that a list of predicate
\* objects yields the per-object AND-groups joined by OR, and a single object
\* yields just its own AND-group of one comparison per leaf; nested
\* plain-object values are flattened into dotted key paths and contribute one
\* comparison per leaf (primitive or operator value), never one per
\* intermediate object.
C24_WhereComposition ==
    (pc # "start" /\ config.where # None)
       => /\ Len(whereGroups) = 1
          /\ LET statement == unwrapped(whereGroups[1].condition)
                 groups == IF whereObjects = <<>> THEN <<>> ELSE Split(statement, " OR ")
             IN /\ Len(groups) = Len(whereObjects)
                /\ \A i \in DOMAIN groups :
                      LET leaves == leavesOf(whereObjects[i], <<>>)
                          comparisons == comparisonsOf(groups[i])
                      IN /\ Len(comparisons) = Len(leaves)
                         /\ \A k \in DOMAIN comparisons :
                               comparisons[k]
                                  = whereAlias(leaves[k].key)
                                    \o <<" ", IF leaves[k].kind = "operator" THEN ">" ELSE "=", " ">>
                                    \o NumToStr(leaves[k].value)

C24_Witness ==
    /\ pc = "resolved"
    /\ config.where # None
    /\ config.where[1].isArray
    /\ Len(whereObjects) = 2
    /\ Len(whereGroups) = 1
    /\ whereGroups[1].condition
          = <<"(", "__root", "_", "toys", "_", "rel", "_", "shop", "_", "rel", ".", "name",
              " ", "=", " ", "1", " OR ", "name", " ", "=", " ", "2", ")">>

\* C25: after initialization with any config.relations and any config.where
\* tree (any number of leaves, in any order, sharing any prefixes), the
\* builder's join list contains no join alias twice: a left join for an
\* intermediate path is added only if its alias is not already among the
\* builder's joins, so leaves sharing a prefix reuse the join added by an
\* earlier leaf or by config.relations.
C25_NoDuplicateJoin ==
    pc # "start"
       => \A i, j \in DOMAIN qb.joins : qb.joins[i].alias = qb.joins[j].alias => i = j

C25_Witness ==
    /\ pc = "resolved"
    /\ config.relations # None
    /\ \E l1, l2 \in whereLeaves :
          /\ l1.key = <<"toys", ".", "name">>
          /\ l2.key = <<"toys", ".", "shop", ".", "name">>
    /\ qb.joins = <<[property |-> <<"__root", ".", "toys">>,
                     alias |-> <<"__root", "_", "toys", "_", "rel">>, select |-> TRUE],
                    [property |-> <<"__root", "_", "toys", "_", "rel", ".", "shop">>,
                     alias |-> <<"__root", "_", "toys", "_", "rel", "_", "shop", "_", "rel">>,
                     select |-> FALSE]>>

\* a leaf whose key path starts at a relation of the root entity
IsRelationLeaf(leaf) == ThroughRelation(leaf.key)

\* the alias of the table an alias reads from: what a virtual column's
\* expression was applied to, else what stands before the last dot
tableQualifier(alias) ==
    IF startsWith(alias, "(")
    THEN LET from == CHOOSE k \in DOMAIN alias : alias[k] = "FROM"
         IN SubSeq(alias, from + 2, Len(alias) - 1)
    ELSE LET dots == {k \in DOMAIN alias : alias[k] = "."}
         IN IF dots = {} THEN <<>>
            ELSE SubSeq(alias, 1, (CHOOSE k \in dots : \A j \in dots : j <= k) - 1)

\* the joins follow the scheme of the resolver: the alias of a join is the
\* alias of the joined property's table, the property and `rel` appended
JoinsFollowScheme ==
    \A i \in DOMAIN qb.joins :
       LET join == qb.joins[i]
           lastDot == CHOOSE k \in DOMAIN join.property :
                         join.property[k] = "." /\ \A j \in (k + 1)..Len(join.property) :
                                                      join.property[j] # "."
       IN join.alias = SubSeq(join.property, 1, lastDot - 1) \o <<"_">>
                       \o SubSeq(join.property, lastDot + 1, Len(join.property))
                       \o <<"_", "rel">>

\* C26: for every relation leaf of a predicate tree, the table qualifier of the
\* alias used in the leaf's comparison expression (as computed by
\* fixColumnAlias) is the alias of a join that is present on the builder once
\* the leaf has been processed: the flattener's join names (`alias_a_rel`,
\* `alias_a_rel_b_rel`, ...) and the join names created for config.relations
\* follow the same scheme as the column alias resolver.
C26_LeafQualifierJoined ==
    pc # "start"
       => /\ JoinsFollowScheme
          /\ \A leaf \in whereLeaves :
                IsRelationLeaf(leaf) => tableQualifier(whereAlias(leaf.key)) \in joinedAliases(qb)

\* C27: the predicate flattener adds joins only for leaves that need one: a
\* leaf whose path is a plain root column or an embedded column
\* (`embedded.prop`) leaves the builder's join list unchanged, and only leaves
\* whose path crosses a relation add left joins.
C27_JoinsOnlyForRelations ==
    pc # "start"
       => /\ (\A leaf \in whereLeaves : ~IsRelationLeaf(leaf))
                => \A i \in DOMAIN qb.joins : qb.joins[i].select
          /\ \A i \in DOMAIN qb.joins :
                ~qb.joins[i].select
                   => \E leaf \in whereLeaves :
                         /\ IsRelationLeaf(leaf)
                         /\ \E n \in 1..Len(leadingPath(leaf.key)) :
                               qb.joins[i].alias
                                  = RootAlias \o hops(SubSeq(leadingPath(leaf.key), 1, n))

(***************************************************************************)
(* Isolation of resolutions.  What paginate(q, repo, c) does when it runs  *)
(* alone: the builder after its first k stage calls, and its response.     *)
(***************************************************************************)
RECURSIVE aloneBuilder(_, _, _, _)
aloneBuilder(q, c, st, k) ==
    IF k = 0 THEN NewQueryBuilder
    ELSE LET b == aloneBuilder(q, c, st, k - 1)
             stage == stageChain[k]
         IN CASE stage = "applyColumnsSelection" -> withSelection(b, q, c)
              [] stage = "applyFilters" -> withFilters(b, q)
              [] stage = "applyPagination" -> withPagination(b, q, c)
              [] stage = "applySorting" ->
                    IF missingSortableColumns(c, getSortableColumns(q, c)) THEN b
                    ELSE withSorting(b, c, getSortableColumns(q, c), st.dbType)
              [] stage = "applySearch" ->
                    withSearch(b, q, getSearchableColumns(q, c), st.dbType)

aloneResponse(q, c, st) ==
    LET b == aloneBuilder(q, c, st, Len(stageChain))
        limit == paginationLimit(q, c)
        rows == fetchedItems(q, c, st.rows, b)
        total == fetchedTotal(q, c, st.rows)
        options == linkOptions(q, c, limit, getSortableColumns(q, c),
                               getSearchableColumns(q, c), selectParamsOf(q, c))
    IN [state |-> "resolved",
        data |-> rows,
        meta |-> metaOf(q, c, limit, rows, total, getSortableColumns(q, c),
                        getSearchableColumns(q, c), selectParamsOf(q, c)),
        links |-> buildLinks(linkPath(q, c), currentPage(q),
                             totalPagesOf(q, c, total, limit), total, options)]

\* the number of stage calls a resolution has made
stagesCalled(s) ==
    IF Len(s.calls) = 0 THEN 0 ELSE Min(Len(s.calls) - 1, Len(stageChain))

\* C19: paginate holds no cross-request state: when two resolutions with
\* distinct query-builder handles are interleaved at any stage or await
\* boundary, each resolution applies the same builder mutations and returns the
\* same response as when it runs alone, and neither touches the other's
\* builder.
C19_NoCrossRequestState ==
    \A r \in DOMAIN resolutions :
       LET s == resolutions[r] IN
       /\ s.qb = aloneBuilder(s.query, s.config, s.store, stagesCalled(s))
       /\ s.pc = "resolved" => s.outcome = aloneResponse(s.query, s.config, s.store)
       /\ (s.pc = "rejected" /\ s.thrown = None)
             => /\ s.config.sortableColumns = <<>>
                /\ s.outcome = [state |-> "rejected", error |-> ServiceUnavailableException]
       /\ s.pc \notin {"resolved", "rejected"} => s.outcome = Pending

\* both resolutions search, in different columns; the first one has resolved
\* while the second one was between its stages, which then resolved too
C19_Witness ==
    /\ Len(resolutions) = 2
    /\ resolutions[1].pc = "resolved"
    /\ resolutions[2].pc = "resolved"
    /\ resolutions[1].query.search # None
    /\ resolutions[2].query.search # None
    /\ resolutions[1].searchableColumns = <<<<"name">>>>
    /\ resolutions[2].searchableColumns = <<<<"color">>>>
    /\ resolutions[1].qb # resolutions[2].qb
    /\ resolutions[1].outcome.meta.searchBy # resolutions[2].outcome.meta.searchBy

(***************************************************************************)
(* Replaying a link.  The request parser turns the parameters of a link    *)
(* back into a query: page and limit are parsed as decimal integers,       *)
(* sortBy values are split at ':' and the select value at ','.             *)
(***************************************************************************)
CharDigit(ch) ==
    CASE ch = "0" -> 0 [] ch = "1" -> 1 [] ch = "2" -> 2 [] ch = "3" -> 3 [] ch = "4" -> 4
      [] ch = "5" -> 5 [] ch = "6" -> 6 [] ch = "7" -> 7 [] ch = "8" -> 8 [] ch = "9" -> 9

RECURSIVE StrToNat(_)
StrToNat(str) ==
    IF Len(str) = 0 THEN 0
    ELSE StrToNat(SubSeq(str, 1, Len(str) - 1)) * 10 + CharDigit(str[Len(str)])

StrToNum(str) == IF str[1] = "-" THEN 0 - StrToNat(Tail(str)) ELSE StrToNat(str)

\* the values of the parameters called name, in order
RECURSIVE paramValues(_, _)
paramValues(options, name) ==
    IF options = <<>> THEN <<>>
    ELSE (IF Head(options).name = name THEN <<Head(options).value>> ELSE <<>>)
         \o paramValues(Tail(options), name)

\* 'column:direction' split at the ':'
splitOrder(value) == Split(value, ":")

\* 'a,b,c' split at the ','
splitComma(value) == Split(value, ",")

parseLink(link, path) ==
    LET sorts == paramValues(link.options, "sortBy")
        searches == paramValues(link.options, "search")
        searchBys == paramValues(link.options, "searchBy")
        selects == paramValues(link.options, "select")
        filters == paramValues(link.options, "filter")
    IN [page |-> Some(StrToNum(link.page)),
        limit |-> Some(StrToNum(paramValues(link.options, "limit")[1])),
        sortBy |-> IF sorts = <<>> THEN None
                   ELSE Some([i \in DOMAIN sorts |-> splitOrder(sorts[i])]),
        search |-> IF searches = <<>> THEN None ELSE Some(searches[1][1]),
        searchBy |-> IF searchBys = <<>> THEN None
                     ELSE Some(searchBys),
        select |-> IF selects = <<>> THEN None ELSE Some(splitComma(selects[1])),
        filter |-> IF filters = <<>> THEN None ELSE Some(filters[1][1]),
        path |-> path]

\* the meta paginate(q, c) resolves to over a store of n matching rows
resolveMeta(q, c, n) ==
    LET b == withPagination(NewQueryBuilder, q, c) IN
    metaOf(q, c, paginationLimit(q, c), fetchedItems(q, c, n, b), fetchedTotal(q, c, n),
           getSortableColumns(q, c), getSearchableColumns(q, c), selectParamsOf(q, c))

\* the part of meta a link is to reproduce
replayed(m) == <<m.itemsPerPage, m.sortBy, m.search, m.searchBy, m.select, m.filter>>

emittedLinks(links) ==
    {l[1] : l \in {links.first, links.previous, links.current, links.next, links.last} \ {None}}

\* C9: round trip: any link the response emits for page N, used as a new
\* request, reproduces the same meta (itemsPerPage, sortBy, search, searchBy,
\* select, filter) as the original request issued for page N; re-applying the
\* limit calculation to the limit written in the link yields the same effective
\* limit and the same pagination mode.
C9_LinkRoundTrip ==
    pc = "resolved"
       => \A link \in emittedLinks(outcome.links) :
             LET again == parseLink(link, query.path)
                 original == [query EXCEPT !.page = again.page]
             IN /\ replayed(resolveMeta(again, config, store.rows))
                      = replayed(resolveMeta(original, config, store.rows))
                /\ (link = outcome.links.current[1])
                      => replayed(resolveMeta(again, config, store.rows)) = replayed(outcome.meta)
                /\ paginationLimit(again, config) = paginationLimit(query, config)
                /\ isPaginated(again, config) = isPaginated(query, config)

\* the page a link names
linkPage(link) == StrToNum(link.page)

\* C29: every emitted link (first, previous, current, next, last) names a page
\* p with 1 <= p <= max(totalPages, 1), for every requested page (including
\* pages beyond the last) and every totalItems.
C29_LinkPagesInRange ==
    pc = "resolved"
       => LET totalPages == outcome.meta.totalPages
              lastPage == IF totalPages > 1 THEN totalPages ELSE 1
          IN \A link \in emittedLinks(outcome.links) :
                1 <= linkPage(link) /\ linkPage(link) <= lastPage

====
